---- MODULE Spec2Model ----
(***************************************************************************)
(* The semantic annotation pipeline of the web-extension replayer pages:   *)
(* DOMReconstructor (pages/semantic/processor.ts) as a state machine.      *)
(*                                                                         *)
(* One reconstructFromEvents call and the analyzeImage cycle it starts are *)
(* one "call" c.  JavaScript is single threaded: a handler runs until its  *)
(* next await, so every action below is the code between two awaits.       *)
(* Subscriber callbacks are taken not to throw.                            *)
(*                                                                         *)
(* Beside it, each with variables and specifications of its own: the       *)
(* semantic EnhancedReplayer (pages/semantic/enhanced-replayer.ts), which  *)
(* mounts the label overlays; the load effect of SemanticInteractivePlayer;*)
(* and the screenshot-analysis plugin of InteractivePlayer.                *)
(***************************************************************************)
EXTENDS Integers, Sequences, FiniteSets, TLC

(* ------------------------------ bounds --------------------------------- *)

\* reconstructFromEvents calls made on the one DOMReconstructor instance
MaxCalls == 2
\* the maxAttempts argument of pollResults (120 at the call site), scaled down
maxAttempts == 3
\* callbacks registered at the same time
MaxSubscribers == 1

\* labels handed to the semantic EnhancedReplayer
MaxLabels == 2
\* the playback clock runs over the offsets 0..MaxTime
MaxTime == 2
\* runs of the load effect of SemanticInteractivePlayer (one per sessionId)
MaxRuns == 2
\* FullSnapshot events the screenshot-analysis plugin handles
MaxShots == 2

Calls == 1..MaxCalls

\* the most results one response of the service carries
MaxResults == 3

\* the most lines of the parsed-content text of the service
MaxLines == 2

\* registrations of callbacks held at a time (SpecListeners)
MaxRegistrations == 3

\* mutation records queued for the observer at a time
MaxRecords == 5

\* the runs of the observer's callback are counted modulo this number
RunsModulus == 2

(* ------------------------------ inputs --------------------------------- *)

FullSnapshot == "FullSnapshot"
IncrementalSnapshot == "IncrementalSnapshot"

\* an event: its type, its timestamp and (FullSnapshot) the ids of the
\* serialized node tree it carries
Event(ty, ts, ids) == [type |-> ty, timestamp |-> ts, node |-> ids]

NoEvent == Event("none", -1, {})

\* the event sequences handed to reconstructFromEvents
EventLists ==
    { << Event(IncrementalSnapshot, 0, {}) >>,
      << Event(FullSnapshot, 0, {1}) >>,
      << Event(IncrementalSnapshot, 0, {}),
         Event(FullSnapshot, 1, {1, 2}),
         Event(FullSnapshot, 2, {3}) >> }

\* the timestamps of the events of the sequences
EventTimestamps ==
    UNION { { events[i].timestamp : i \in 1..Len(events) } : events \in EventLists }

\* Date.now() readings: the replay is analysed after the session was recorded
Clock == {7, 8}

\* service results {text, bbox: [x1, y1, x2, y2], score}; fractions in 1/1000
Result(text, bbox, score) == [text |-> text, bbox |-> bbox, score |-> score]

Batches ==
    { << Result("Login", <<100, 100, 300, 200>>, 900) >>,
      << Result("Login", <<100, 100, 300, 200>>, 900),
         Result("Menu", <<0, 0, 500, 500>>, 500) >> }

\* JavaScript's undefined and NaN, as two values apart from every number
\* of a response (fractions in 1/1000)
undefined == -1000000
NaN == -2000000

\* results as the parsed JSON body can carry them, which nothing checks
\* against AIAnalysisResult: well formed, with no score, and with a bbox of
\* three and of five components
ResultPool ==
    { Result("Login", <<100, 100, 300, 200>>, 900),
      Result("Menu", <<0, 0, 500, 500>>, undefined),
      Result("Short", <<100, 100, 300>>, 900),
      Result("Long", <<100, 100, 300, 200, 50>>, 500) }

ServiceResults == UNION { [1..n -> ResultPool] : n \in 0..MaxResults }

\* the size of the hidden iframe html2canvas captures
imageSize == [width |-> 1024, height |-> 768]

\* what one GET /analyze/results/{jobId} can come to
Resp(kind, results) == [kind |-> kind, results |-> results]

ErrorKinds ==
    {"FetchReject", "HttpError", "NoBody", "StreamError", "BadJson", "ErrorField"}

Responses ==
    { Resp(k, <<>>) : k \in ErrorKinds \cup {"NotFound", "OkAbsent"} }
        \cup { Resp("Ok", rs) : rs \in Batches \cup {<<>>} }

\* what POST /analyze/upload can come to
UploadReply(kind, id) == [kind |-> kind, jobId |-> id]

\* the service gives every accepted upload a job id of its own: the id of
\* the upload of call c is c, and 0 stands for no job id
NoJob == 0

UploadReplies(c) ==
    { UploadReply(k, NoJob) : k \in {"FetchReject", "NotOk", "BadJson", "NoJobId"} }
        \cup { UploadReply("Ok", c) }

Callbacks == {"cb1"}

\* the session the replayer plays: its events carry absolute timestamps
RecordedEvents ==
    << Event(FullSnapshot, 10, {1, 2}),
       Event(IncrementalSnapshot, 11, {}),
       Event(FullSnapshot, 12, {2, 3}) >>

\* a SemanticLabel, by the two fields attachSemanticLabels reads
Label(elementId, timestamp) == [elementId |-> elementId, timestamp |-> timestamp]

LabelPool == { Label(id, ts) : id \in {1, 3}, ts \in {0, 1, 11} }

\* the semanticLabels argument of the constructor
LabelLists == UNION { [1..n -> LabelPool] : n \in 0..MaxLabels }

\* the timeOffset argument of play and resume, and the clock's readings
Offsets == 0..MaxTime

(* ------------------------------- state --------------------------------- *)

VARIABLES
    nCalls,           \* reconstructFromEvents calls made so far
    pc,               \* per call: the await it is suspended at
    snapshot,         \* per call: the FullSnapshot event it found
    recon,            \* per call: the DOMReconstructionResult it resolved to
    image,            \* per call: imageDataUrl / dataUrl
    jobId,            \* per call: the jobId of the upload reply
    attempt,          \* per call: pollResults' loop variable
    fetches,          \* per call: calls made to the results endpoint
    waits,            \* per call: interval waits of pollResults
    caught,           \* per call: the error analyzeImage caught
    ret,              \* per call: what analyzeImage resolved to
    cycleNo,          \* per call: its analysis cycle's place in start order
    uploads,          \* POSTs made to the upload endpoint
    isPolling,        \* this.isPolling
    currentJobId,     \* this.currentJobId
    analysisResults,  \* this.analysisResults
    subscribers,      \* this.semanticLabelSubscribers
    notifications,    \* runs of notifySemanticLabelSubscribers so far
    lastNotification, \* the latest of them: what the subscribers hold
    attached,         \* hiddenContainer (and the iframe in it) is in the page
    orphaned,         \* the calls whose job was in flight when destroy() ran
    mirror,           \* ids this.mirror maps
    virtualDom,       \* ids of the tree in this.virtualDom
    surface,          \* ids of the tree in the iframe document
    trace,            \* responses pollResults received (SpecPoll only)
    semanticLabels,   \* EnhancedReplayer: this.semanticLabels
    overlayContainer, \* EnhancedReplayer: this.overlayContainer and its children
    replayMirror,     \* EnhancedReplayer: ids this.mirror (of Replayer) maps
    currentTime,      \* EnhancedReplayer: what getCurrentTime() returns
    playing,          \* EnhancedReplayer: the timer of Replayer is running
    lastCall,         \* EnhancedReplayer: the latest call made on it
    nRuns,            \* SemanticInteractivePlayer: runs of the effect so far
    loadPc,           \* per run: the await loadAndProcessSession is at
    loadedEvents,     \* per run: its local `events`
    replayerRef,      \* replayerRef.current
    pageError,        \* the error state
    isProcessing,     \* the isProcessing state
    eventsState,      \* the events state
    labelsState,      \* the semanticLabels state
    cleaned,          \* the runs whose cleanup has run
    mounted,          \* the component is mounted
    nShots,           \* plugin: handler calls with a FullSnapshot so far
    shotPc,           \* per such call: the await analyzeScreenshot is at
    shotPlaying,      \* per such call: the replayer was playing at the call
    analysisComplete, \* plugin: the analysisComplete flag
    replayerPlaying,  \* plugin: context.replayer is playing
    userActed,        \* plugin: the user has used the controller
    parseResults,     \* plugin: what onParseResults was last called with
    gradioData,       \* plugin: result.data of the prediction
    highlightPc,      \* plugin: where the latest highlight call ended
    coordinateObject, \* plugin: coordinateObject of the latest highlight call
    boxes,            \* plugin: the boxes it went on to match with elements
    highlighted,      \* plugin: the data-omni-text of the elements highlighted
    enhancePc,        \* enhanceEventsWithSemanticLabels: the await it is at
    enhanceInput,     \* its events, and the semanticMapping it was given
    enhanceProcessor, \* the calls made on its SemanticProcessor, in order
    enhanceResult,    \* what its promise settled to
    serviceResults,   \* analyzeImage: data.results of the poll
    mappedLabels,     \* analyzeImage: semanticLabels made of them
    playerRuns,       \* player page: runs of its effect so far
    playerLoads,      \* per run: how its getSession and getEvents stand
    playerRef,        \* player page: playerRef.current
    sessionName,      \* player page: the sessionName state
    playerEl,         \* player page: playerElRef.current is an element
    isInteractionEnabled, \* interactive EnhancedReplayer: this.isInteractionEnabled
    observer,         \* its MutationObserver is connected
    records,          \* the mutation records queued for the observer
    iframeAttrs,      \* style and sandbox attribute of the replayer's iframe
    observerRuns      \* runs of the observer's callback so far, modulo RunsModulus

replayerVars ==
    << semanticLabels, overlayContainer, replayMirror, currentTime, playing, lastCall >>

loaderVars ==
    << nRuns, loadPc, loadedEvents, replayerRef, pageError, isProcessing, eventsState,
       labelsState, cleaned, mounted >>

highlightVars == << gradioData, highlightPc, coordinateObject, boxes, highlighted >>

pluginVars ==
    << nShots, shotPc, shotPlaying, analysisComplete, replayerPlaying, userActed,
       parseResults, highlightVars >>

mapperVars == << serviceResults, mappedLabels >>

enhanceVars == << enhancePc, enhanceInput, enhanceProcessor, enhanceResult >>

playerVars == << playerRuns, playerLoads, playerRef, sessionName, playerEl >>

observerVars == << isInteractionEnabled, observer, records, iframeAttrs, observerRuns >>

\* the variables of the functions and components that stand alone
otherVars == << mapperVars, enhanceVars, playerVars, observerVars >>

pageVars == << replayerVars, loaderVars, pluginVars, otherVars >>

vars ==
    << nCalls, pc, snapshot, recon, image, jobId, attempt, fetches, waits, caught,
       ret, cycleNo, uploads, isPolling, currentJobId, analysisResults, subscribers,
       notifications, lastNotification, attached, orphaned, mirror, virtualDom, surface, trace,
       pageVars >>

processorVars ==
    << nCalls, pc, snapshot, recon, image, jobId, attempt, fetches, waits, caught,
       ret, cycleNo, uploads, isPolling, currentJobId, analysisResults, subscribers,
       notifications, lastNotification, attached, orphaned, mirror, virtualDom, surface, trace >>

\* the variables of the DOMReconstructor
reconstructorVars == << processorVars, otherVars >>

callVars ==
    << pc, snapshot, recon, image, jobId, attempt, fetches, waits, caught, ret, cycleNo >>

domVars == << mirror, virtualDom, surface >>

NoNotification ==
    [call |-> 0, labels |-> <<>>, image |-> [of |-> {}, captured |-> FALSE], to |-> <<>>,
     afterDestroy |-> FALSE]

Null == [isNull |-> TRUE, value |-> <<>>]
Some(v) == [isNull |-> FALSE, value |-> v]

NoImage == [of |-> {}, captured |-> FALSE]
Image(ids) == [of |-> ids, captured |-> TRUE]

Pending == [settled |-> FALSE, document |-> FALSE, image |-> NoImage, error |-> ""]
Resolved(doc, img, err) ==
    [settled |-> TRUE, document |-> doc, image |-> img, error |-> err]

\* the promise of reconstructFromEvents rejected with error
Rejected(error) == [settled |-> TRUE, rejected |-> error]

NotReturned == [settled |-> FALSE, value |-> <<>>]
Returned(v) == [settled |-> TRUE, value |-> v]

(* --------------------------- pure functions ---------------------------- *)

\* events.find(event => event.type === EventType.FullSnapshot)
RECURSIVE FindFrom(_, _)
FindFrom(events, i) ==
    IF i > Len(events) THEN NoEvent
    ELSE IF events[i].type = FullSnapshot THEN events[i]
    ELSE FindFrom(events, i + 1)

\* find without the test of the event type
FindFullSnapshot_First(events) == IF Len(events) = 0 THEN NoEvent ELSE events[1]

\* findLast in the place of find
FindFullSnapshot_Last(events) ==
    LET full == SelectSeq(events, LAMBDA event : event.type = FullSnapshot)
    IN IF full = <<>> THEN NoEvent ELSE full[Len(full)]

FindFullSnapshot(events) == FindFrom(events, 1)

\* the reset of the mirror lost
reset_Keep(m) == m

\* this.mirror.reset() (lines 154, 460)
reset(m) == {}

\* this.virtualDom.destroyTree() (line 156)
destroyTree(tree) == {}

\* the outer catch rethrowing
ReconstructCatch_Rethrow(error) == Rejected(error)

\* the outer catch of reconstructFromEvents (lines 228-234)
ReconstructCatch(error) == Resolved(FALSE, NoImage, "Failed to reconstruct DOM")

\* bbox[i - 1] of JavaScript: undefined past the end of the array
At(bbox, i) == IF i \in 1..Len(bbox) THEN bbox[i] ELSE undefined

\* a - b of JavaScript on numbers, undefined and NaN
Minus(a, b) == IF {a, b} \cap {undefined, NaN} # {} THEN NaN ELSE a - b

convertBBoxToBox(bbox) ==
    [x |-> At(bbox, 1),
     y |-> At(bbox, 2),
     width |-> Minus(At(bbox, 3), At(bbox, 1)),
     height |-> Minus(At(bbox, 4), At(bbox, 2))]

\* crypto.randomUUID() is modelled by the (call, index) pair uuid
convertToSemanticLabel(result, timestamp, uuid) ==
    [id |-> uuid,
     timestamp |-> timestamp,
     label |-> result.text,
     confidence |-> result.score,
     bbox |-> convertBBoxToBox(result.bbox)]

\* data.results.map(result => convertToSemanticLabel(result, timestamp))
SemanticLabels(c, results, timestamp) ==
    [i \in 1..Len(results) |-> convertToSemanticLabel(results[i], timestamp, <<c, i>>)]

\* pollResults with the `attempt === maxAttempts - 1` test of its catch lost
PollIteration_ThrowOnAnyError(a, r) ==
    IF r.kind \in ErrorKinds THEN "throw"
    ELSE IF r.kind = "NotFound" THEN "wait"
    ELSE IF r.kind = "Ok" /\ Len(r.results) > 0 THEN "return"
    ELSE "wait"

\* pollResults with the `data.results.length > 0` test lost
PollIteration_EmptyReturns(a, r) ==
    IF r.kind \in ErrorKinds
    THEN IF a = maxAttempts - 1 THEN "throw" ELSE "wait"
    ELSE IF r.kind = "NotFound" THEN "wait"
    ELSE IF r.kind = "Ok" THEN "return"
    ELSE "wait"

\* pollResults returning results only on its last attempt
PollIteration_WaitOnResults(a, r) ==
    IF r.kind \in ErrorKinds
    THEN IF a = maxAttempts - 1 THEN "throw" ELSE "wait"
    ELSE IF r.kind = "NotFound" THEN "wait"
    ELSE IF r.kind = "Ok" /\ Len(r.results) > 0 /\ a = maxAttempts - 1 THEN "return"
    ELSE "wait"

\* one iteration of pollResults' loop at loop variable a on response r:
\* "return" (line 364), "wait" (lines 338, 369, 376) or "throw" (line 373)
PollIteration(a, r) ==
    IF r.kind \in ErrorKinds
    THEN IF a = maxAttempts - 1 THEN "throw" ELSE "wait"
    ELSE IF r.kind = "NotFound" THEN "wait"
    ELSE IF r.kind = "Ok" /\ Len(r.results) > 0 THEN "return"
    ELSE "wait"

MaxAttemptsReached == "Max polling attempts reached without getting results"

\* the loop test off by one
LoopTest_Inclusive(a) == a <= maxAttempts

\* the loop test of pollResults (line 329)
LoopTest(a) == a < maxAttempts

\* pollResults as a function of the responses it is given, from its first
\* fetch on: what it came to ("pending" while the responses have not ended
\* it), the results it returned, and the fetches and interval waits made
PollStart == [outcome |-> "pending", results |-> <<>>, attempt |-> 0, fetches |-> 1, waits |-> 0]

PollAfter(p, r) ==
    LET step == PollIteration(p.attempt, r)
    IN IF p.outcome # "pending" THEN p
       ELSE IF step = "return" THEN [p EXCEPT !.outcome = "returned", !.results = r.results]
       ELSE IF step = "throw" THEN [p EXCEPT !.outcome = r.kind]
       ELSE IF LoopTest(p.attempt + 1)
            THEN [p EXCEPT !.attempt = @ + 1, !.waits = @ + 1, !.fetches = @ + 1]
            ELSE [p EXCEPT !.attempt = @ + 1, !.waits = @ + 1,
                           !.outcome = MaxAttemptsReached]

RECURSIVE PollFold(_, _, _)
PollFold(p, responses, i) ==
    IF i > Len(responses) THEN p ELSE PollFold(PollAfter(p, responses[i]), responses, i + 1)

PollRun(responses) == PollFold(PollStart, responses, 1)

(* ------------------------------- Init ---------------------------------- *)

\* the state after `new DOMReconstructor()` (lines 92-130)
InitReconstructor ==
    /\ nCalls = 0
    /\ pc = [c \in Calls |-> "idle"]
    /\ snapshot = [c \in Calls |-> NoEvent]
    /\ recon = [c \in Calls |-> Pending]
    /\ image = [c \in Calls |-> NoImage]
    /\ jobId = [c \in Calls |-> NoJob]
    /\ attempt = [c \in Calls |-> 0]
    /\ fetches = [c \in Calls |-> 0]
    /\ waits = [c \in Calls |-> 0]
    /\ caught = [c \in Calls |-> ""]
    /\ ret = [c \in Calls |-> NotReturned]
    /\ cycleNo = [c \in Calls |-> 0]
    /\ uploads = 0
    /\ isPolling = FALSE
    /\ currentJobId = NoJob
    /\ analysisResults = Null
    /\ subscribers = <<>>
    /\ notifications = 0
    /\ lastNotification = NoNotification
    /\ attached = TRUE
    /\ orphaned = {}
    /\ mirror = {}
    /\ virtualDom = {}
    /\ surface = {}
    /\ trace = <<>>

NoCall == [op |-> "none", time |-> 0]

\* the state after `new EnhancedReplayer(events, config, labels)`: the
\* wrapper exists, so the overlay container is created, empty
InitReplayer(labels) ==
    /\ semanticLabels = labels
    /\ overlayContainer = Some(<<>>)
    /\ replayMirror = {}
    /\ currentTime = 0
    /\ playing = FALSE
    /\ lastCall = NoCall

Runs == 1..MaxRuns

\* the first render of SemanticInteractivePlayer (lines 21-29)
InitLoader ==
    /\ nRuns = 0
    /\ loadPc = [r \in Runs |-> "idle"]
    /\ loadedEvents = [r \in Runs |-> <<>>]
    /\ replayerRef = Null
    /\ pageError = Null
    /\ isProcessing = TRUE
    /\ eventsState = <<>>
    /\ labelsState = <<>>
    /\ cleaned = {}
    /\ mounted = TRUE

Shots == 1..MaxShots

\* createScreenshotAnalysisPlugin(onParseResults) in a player created with
\* autoPlay (InteractivePlayer.tsx lines 599-602, 936-949)
InitPlugin ==
    /\ nShots = 0
    /\ shotPc = [k \in Shots |-> "idle"]
    /\ shotPlaying = [k \in Shots |-> FALSE]
    /\ analysisComplete = FALSE
    /\ replayerPlaying = TRUE
    /\ userActed = FALSE
    /\ parseResults = Null

\* how the promise of enhanceEventsWithSemanticLabels stands: "pending",
\* "rejected" with an error, or "resolved" with a value or with undefined
Outcome(kind, error, defined, value) ==
    [kind |-> kind, error |-> error, defined |-> defined, value |-> value]

\* a player page (Player, InteractivePlayer) rendered, its effect not yet
\* run
InitPlayer ==
    /\ playerRuns = 0
    /\ playerLoads = [r \in Runs |-> [getSession |-> "none", getEvents |-> "none"]]
    /\ playerRef = Null
    /\ sessionName = 0
    /\ playerEl = TRUE

\* the interactive EnhancedReplayer constructed (InteractivePlayer.tsx lines
\* 141-167): its observer connected, interaction disabled; the replayer's
\* iframe is the one iframe of the page, and Replayer has it sandboxed and
\* closed to the pointer
InitObserver ==
    /\ isInteractionEnabled = FALSE
    /\ observer = TRUE
    /\ records = <<>>
    /\ iframeAttrs = [style |-> "none", sandbox |-> "allow-same-origin", wrapper |-> ""]
    /\ observerRuns = 0

\* before enhanceEventsWithSemanticLabels is called
InitEnhance ==
    /\ enhancePc = "idle"
    /\ enhanceInput = [events |-> <<>>, semanticMapping |-> <<>>]
    /\ enhanceProcessor = <<>>
    /\ enhanceResult = Outcome("pending", "", FALSE, <<>>)

\* a prediction that detected nothing
NoDetections == [parsedText |-> <<>>, object |-> <<>>, form |-> "object"]

\* the page before highlightMatchingElements has run on result.data
InitHighlight(data) ==
    /\ gradioData = data
    /\ highlightPc = "idle"
    /\ coordinateObject = Null
    /\ boxes = <<>>
    /\ highlighted = {}

\* data.results before analyzeImage maps them (processor.ts line 426)
InitMapper(data) ==
    /\ serviceResults = data
    /\ mappedLabels = Null

Init ==
    /\ InitReconstructor
    /\ InitReplayer(<<>>)
    /\ InitLoader
    /\ InitPlugin
    /\ InitHighlight(NoDetections)
    /\ InitMapper(<<>>)
    /\ InitEnhance
    /\ InitPlayer
    /\ InitObserver

(* ------------------------------ helpers -------------------------------- *)

\* notifySemanticLabelSubscribers(labels, imageData): every registered
\* callback is called, in order, with the labels and the image
Notification(c, labels, img) ==
    [call |-> c, labels |-> labels, image |-> img, to |-> subscribers,
     afterDestroy |-> ~attached]

Notify(c, labels, img) ==
    /\ notifications' = notifications + 1
    /\ lastNotification' = Notification(c, labels, img)

delivery == << notifications, lastNotification >>

\* the catch block without `this.analysisResults = null`
AnalyzeCatch_KeepResults(c, error) ==
    /\ caught' = [caught EXCEPT ![c] = error]
    /\ UNCHANGED analysisResults
    /\ ret' = [ret EXCEPT ![c] = Returned(<<>>)]
    /\ pc' = [pc EXCEPT ![c] = "done"]
    /\ UNCHANGED << notifications, lastNotification >>

\* the catch block telling the subscribers of the failure
AnalyzeCatch_Notify(c, error) ==
    /\ caught' = [caught EXCEPT ![c] = error]
    /\ analysisResults' = Null
    /\ Notify(c, <<>>, image[c])
    /\ ret' = [ret EXCEPT ![c] = Returned(<<>>)]
    /\ pc' = [pc EXCEPT ![c] = "done"]

\* the catch block of analyzeImage (lines 441-445)
AnalyzeCatch(c, error) ==
    /\ caught' = [caught EXCEPT ![c] = error]
    /\ analysisResults' = Null
    /\ ret' = [ret EXCEPT ![c] = Returned(<<>>)]
    /\ pc' = [pc EXCEPT ![c] = "done"]
    /\ UNCHANGED delivery

\* analyzeImage after pollResults returned data (lines 428-440)
AnalyzeSuccess(c, results, timestamp) ==
    /\ analysisResults' = Some(results)
    /\ Notify(c, SemanticLabels(c, results, timestamp), image[c])
    /\ ret' = [ret EXCEPT ![c] = Returned(results)]
    /\ pc' = [pc EXCEPT ![c] = "done"]
    /\ UNCHANGED caught

\* analyzeImage from its entry to its first await, the upload fetch
\* (lines 383-412)
AnalyzeEnter(c, dataUrl) ==
    IF isPolling
    THEN /\ ret' = [ret EXCEPT ![c] = Returned(<<>>)]
         /\ pc' = [pc EXCEPT ![c] = "done"]
         /\ UNCHANGED << delivery, uploads, cycleNo >>
    ELSE /\ Notify(c, <<>>, dataUrl)
         /\ uploads' = uploads + 1
         /\ cycleNo' = [cycleNo EXCEPT ![c] = uploads + 1]
         /\ pc' = [pc EXCEPT ![c] = "uploading"]
         /\ UNCHANGED ret

\* the analysis cycle of call c is between its upload and its last poll
CycleInFlight(c) == pc[c] \in {"uploading", "fetching", "waiting"}

\* getAnalysisResults() (lines 448-450)
getAnalysisResults == analysisResults

(* ------------------------------ actions -------------------------------- *)

\* reconstructFromEvents(events) up to its first await (lines 132-200); the
\* wait for the images and the html2canvas run that follows it are one
\* suspension ("rendering"): nothing is written between them
Reconstruct(events) ==
    /\ nCalls < MaxCalls
    /\ nCalls' = nCalls + 1
    /\ LET c == nCalls + 1
           fullSnapshot == FindFullSnapshot(events)
       IN IF fullSnapshot = NoEvent
          THEN /\ recon' = [recon EXCEPT ![c] =
                    Resolved(FALSE, NoImage, "No full snapshot found in events")]
               /\ pc' = [pc EXCEPT ![c] = "done"]
               /\ UNCHANGED << snapshot, image, domVars >>
          ELSE /\ snapshot' = [snapshot EXCEPT ![c] = fullSnapshot]
               /\ IF ~attached
                  THEN \* contentDocument of a removed iframe is null (line 149)
                       /\ recon' = [recon EXCEPT ![c] =
                            ReconstructCatch("No iframe document available")]
                       /\ pc' = [pc EXCEPT ![c] = "done"]
                       /\ UNCHANGED << image, domVars >>
                  ELSE \E rebuildOk, diffOk \in BOOLEAN :
                       IF ~rebuildOk
                       THEN \* rebuild throws part way (lines 159, 228)
                            /\ \E built \in (SUBSET fullSnapshot.node) \ {fullSnapshot.node} :
                                 /\ mirror' = reset(mirror) \cup built
                                 /\ virtualDom' = destroyTree(virtualDom) \cup built
                            /\ ~diffOk
                            /\ recon' = [recon EXCEPT ![c] = ReconstructCatch("rebuild")]
                            /\ pc' = [pc EXCEPT ![c] = "done"]
                            /\ UNCHANGED << image, surface >>
                       ELSE /\ mirror' = reset(mirror) \cup fullSnapshot.node
                            /\ virtualDom' = destroyTree(virtualDom) \cup fullSnapshot.node
                            /\ surface' = IF diffOk THEN fullSnapshot.node ELSE surface
                            /\ image' = [image EXCEPT ![c] =
                                 [of |-> surface', captured |-> FALSE]]
                            /\ pc' = [pc EXCEPT ![c] = "rendering"]
                            /\ UNCHANGED recon
    /\ UNCHANGED << jobId, attempt, fetches, waits, caught, ret, cycleNo, uploads,
                    isPolling, currentJobId, analysisResults, subscribers, delivery,
                    attached, orphaned, pageVars >>

\* the inner catch falling through to the analysis
CaptureDone_AnalyzeOnFailure(c, ok) ==
    /\ pc[c] = "rendering"
    /\ image' = [image EXCEPT ![c] = IF ok THEN Image(image[c].of) ELSE NoImage]
    /\ recon' = [recon EXCEPT ![c] =
         IF ok THEN Resolved(TRUE, image'[c], "")
         ELSE Resolved(TRUE, NoImage, "Failed to generate image snapshot")]
    /\ AnalyzeEnter(c, image'[c])
    /\ UNCHANGED << nCalls, snapshot, jobId, attempt, fetches, waits, caught, isPolling,
                    currentJobId, analysisResults, subscribers, attached, orphaned, domVars, pageVars >>

\* html2canvas settles (lines 203-227); on success analyzeImage is entered
CaptureDone(c, ok) ==
    /\ pc[c] = "rendering"
    /\ IF ok
       THEN LET imageDataUrl == Image(image[c].of)
            IN /\ image' = [image EXCEPT ![c] = imageDataUrl]
               /\ recon' = [recon EXCEPT ![c] = Resolved(TRUE, imageDataUrl, "")]
               /\ AnalyzeEnter(c, imageDataUrl)
       ELSE /\ image' = [image EXCEPT ![c] = NoImage]
            /\ recon' = [recon EXCEPT ![c] =
                 Resolved(TRUE, NoImage, "Failed to generate image snapshot")]
            /\ pc' = [pc EXCEPT ![c] = "done"]
            /\ UNCHANGED << ret, delivery, uploads, cycleNo >>
    /\ UNCHANGED << nCalls, snapshot, jobId, attempt, fetches, waits, caught, isPolling,
                    currentJobId, analysisResults, subscribers, attached, orphaned, domVars, pageVars >>

\* analyzeImage with the `if (!jobId)` test lost: a reply without job id
\* enters pollResults too
UploadResponse_PollWithoutJob(c, r) ==
    /\ pc[c] = "uploading"
    /\ IF r.kind \in {"Ok", "NoJobId"}
       THEN /\ jobId' = [jobId EXCEPT ![c] = r.jobId]
            /\ attempt' = [attempt EXCEPT ![c] = 0]
            /\ fetches' = [fetches EXCEPT ![c] = 1]
            /\ pc' = [pc EXCEPT ![c] = "fetching"]
            /\ UNCHANGED << caught, analysisResults, ret, delivery >>
       ELSE /\ AnalyzeCatch(c, r.kind)
            /\ UNCHANGED << jobId, attempt, fetches >>
    /\ UNCHANGED << nCalls, snapshot, recon, image, waits, cycleNo, uploads, isPolling,
                    currentJobId, subscribers, attached, orphaned, domVars, pageVars >>

\* the upload fetch settles (lines 406-426); an accepted upload enters
\* pollResults, whose first iteration issues the first results fetch
UploadResponse(c, r) ==
    /\ pc[c] = "uploading"
    /\ IF r.kind = "Ok"
       THEN /\ jobId' = [jobId EXCEPT ![c] = r.jobId]
            /\ attempt' = [attempt EXCEPT ![c] = 0]
            /\ fetches' = [fetches EXCEPT ![c] = 1]
            /\ pc' = [pc EXCEPT ![c] = "fetching"]
            /\ UNCHANGED << caught, analysisResults, ret, delivery >>
       ELSE /\ AnalyzeCatch(c, r.kind)
            /\ UNCHANGED << jobId, attempt, fetches >>
    /\ UNCHANGED << nCalls, snapshot, recon, image, waits, cycleNo, uploads, isPolling,
                    currentJobId, subscribers, attached, orphaned, domVars, pageVars >>

\* pollResults with the wait of its catch block lost: after an error that
\* is not the last attempt's, the next fetch is made at once
PollResponse_NoWaitInCatch(c, r) ==
    /\ pc[c] = "fetching"
    /\ LET step == PollIteration(attempt[c], r)
       IN CASE step = "return" ->
                 /\ \E timestamp \in Clock : AnalyzeSuccess(c, r.results, timestamp)
                 /\ UNCHANGED << waits, attempt, fetches >>
            [] step = "wait" /\ r.kind \notin ErrorKinds ->
                 /\ waits' = [waits EXCEPT ![c] = @ + 1]
                 /\ pc' = [pc EXCEPT ![c] = "waiting"]
                 /\ UNCHANGED << caught, analysisResults, ret, delivery, attempt, fetches >>
            [] step = "wait" /\ r.kind \in ErrorKinds ->
                 /\ attempt' = [attempt EXCEPT ![c] = @ + 1]
                 /\ fetches' = [fetches EXCEPT ![c] = @ + 1]
                 /\ UNCHANGED << pc, waits, caught, analysisResults, ret, delivery >>
            [] step = "throw" ->
                 /\ AnalyzeCatch(c, r.kind)
                 /\ UNCHANGED << waits, attempt, fetches >>
    /\ UNCHANGED << nCalls, snapshot, recon, image, jobId, cycleNo,
                    uploads, isPolling, currentJobId, subscribers, attached, orphaned, domVars, pageVars >>

\* a results fetch settles and its body is read and parsed (lines 331-377)
PollResponse(c, r) ==
    /\ pc[c] = "fetching"
    /\ LET step == PollIteration(attempt[c], r)
       IN CASE step = "return" ->
                 /\ \E timestamp \in Clock : AnalyzeSuccess(c, r.results, timestamp)
                 /\ UNCHANGED waits
            [] step = "wait" ->
                 /\ waits' = [waits EXCEPT ![c] = @ + 1]
                 /\ pc' = [pc EXCEPT ![c] = "waiting"]
                 /\ UNCHANGED << caught, analysisResults, ret, delivery >>
            [] step = "throw" ->
                 /\ AnalyzeCatch(c, r.kind)
                 /\ UNCHANGED waits
    /\ UNCHANGED << nCalls, snapshot, recon, image, jobId, attempt, fetches, cycleNo,
                    uploads, isPolling, currentJobId, subscribers, attached, orphaned, domVars, pageVars >>

\* the interval timer fires: attempt++, then the loop test (line 329) and
\* either the next results fetch or the throw after the loop (line 379)
WaitElapsed(c) ==
    /\ pc[c] = "waiting"
    /\ attempt' = [attempt EXCEPT ![c] = @ + 1]
    /\ IF LoopTest(attempt[c] + 1)
       THEN /\ fetches' = [fetches EXCEPT ![c] = @ + 1]
            /\ pc' = [pc EXCEPT ![c] = "fetching"]
            /\ UNCHANGED << caught, analysisResults, ret, delivery >>
       ELSE /\ AnalyzeCatch(c, MaxAttemptsReached)
            /\ UNCHANGED fetches
    /\ UNCHANGED << nCalls, snapshot, recon, image, jobId, waits, cycleNo, uploads,
                    isPolling, currentJobId, subscribers, attached, orphaned, domVars, trace, pageVars >>

\* subscribeToSemanticLabels(callback) (line 307)
Subscribe(cb) ==
    /\ Len(subscribers) < MaxSubscribers
    /\ subscribers' = Append(subscribers, cb)
    /\ UNCHANGED << nCalls, callVars, uploads, isPolling, currentJobId, analysisResults,
                    delivery, attached, orphaned, domVars, trace, pageVars >>

\* the function returned taking out one registration, as a splice would
Unsubscribe_First(cb) ==
    /\ subscribers' =
         IF \E i \in 1..Len(subscribers) : subscribers[i] = cb
         THEN LET i == CHOOSE i \in 1..Len(subscribers) :
                          /\ subscribers[i] = cb
                          /\ \A j \in 1..(i - 1) : subscribers[j] # cb
              IN SubSeq(subscribers, 1, i - 1) \o SubSeq(subscribers, i + 1, Len(subscribers))
         ELSE subscribers
    /\ UNCHANGED << nCalls, callVars, uploads, isPolling, currentJobId, analysisResults,
                    delivery, attached, orphaned, domVars, trace, pageVars >>

\* the function subscribeToSemanticLabels returned (lines 308-312); called
\* for a callback that has no registration, the filter keeps the whole list
Unsubscribe(cb) ==
    /\ subscribers' = SelectSeq(subscribers, LAMBDA x : x # cb)
    /\ UNCHANGED << nCalls, callVars, uploads, isPolling, currentJobId, analysisResults,
                    delivery, attached, orphaned, domVars, trace, pageVars >>

\* destroy() (lines 456-462); the subscribers are left registered and the
\* cycles in flight are left running.  this.cache holds nothing the
\* pipeline reads back, so createCache() has no counterpart here
Destroy ==
    /\ attached' = FALSE
    /\ mirror' = reset(mirror)
    /\ orphaned' = IF attached THEN { c \in Calls : CycleInFlight(c) } ELSE orphaned
    /\ UNCHANGED << nCalls, callVars, uploads, isPolling, currentJobId, analysisResults,
                    subscribers, delivery, virtualDom, surface, trace, pageVars >>

(* --------------------------- specifications ---------------------------- *)

ReconstructFromEvents == \E events \in EventLists : Reconstruct(events) /\ UNCHANGED trace

Capture == \E c \in Calls, ok \in BOOLEAN : CaptureDone(c, ok) /\ UNCHANGED trace

Upload == \E c \in Calls : \E r \in UploadReplies(c) : UploadResponse(c, r) /\ UNCHANGED trace

Poll == \E c \in Calls, r \in Responses : PollResponse(c, r) /\ UNCHANGED trace

Wait == \E c \in Calls : WaitElapsed(c)

SubscribeToSemanticLabels == \E cb \in Callbacks : Subscribe(cb)

UnsubscribeCallback == \E cb \in Callbacks : Unsubscribe(cb)

Next ==
    \/ ReconstructFromEvents
    \/ Capture
    \/ Upload
    \/ Poll
    \/ Wait
    \/ SubscribeToSemanticLabels
    \/ UnsubscribeCallback
    \/ Destroy

Spec == Init /\ [][Next]_vars

\* one reconstructFromEvents call alone, the responses of its poll recorded
FirstReconstruct == nCalls = 0 /\ ReconstructFromEvents

PollTraced ==
    \E r \in Responses : PollResponse(1, r) /\ trace' = Append(trace, r)

NextPoll ==
    \/ FirstReconstruct
    \/ Capture
    \/ Upload
    \/ PollTraced
    \/ Wait
    \/ SubscribeToSemanticLabels

SpecPoll == Init /\ [][NextPoll]_vars

\* every fetch settles and every timer fires
FairSpecPoll ==
    SpecPoll /\ WF_vars(Capture) /\ WF_vars(Upload) /\ WF_vars(PollTraced) /\ WF_vars(Wait)

\* the reconstructor used with its subscriber registered before the first
\* call and never removed
SubscribedReconstruct == subscribers # <<>> /\ ReconstructFromEvents

NextSubscribed ==
    \/ SubscribeToSemanticLabels
    \/ SubscribedReconstruct
    \/ Capture
    \/ Upload
    \/ Poll
    \/ Wait
    \/ Destroy

SpecSubscribed == Init /\ [][NextSubscribed]_vars

\* the reconstructor with several callbacks, each registered any number of
\* times up to the bound, around one reconstructFromEvents call
Listeners == {"cb1", "cb2"}

Register ==
    \E cb \in Listeners :
        /\ Len(subscribers) < MaxRegistrations
        /\ subscribers' = Append(subscribers, cb)
        /\ UNCHANGED << nCalls, callVars, uploads, isPolling, currentJobId, analysisResults,
                        delivery, attached, orphaned, domVars, trace, pageVars >>

UnsubscribeListener == \E cb \in Listeners : Unsubscribe(cb)

NextListeners ==
    \/ Register
    \/ UnsubscribeListener
    \/ FirstReconstruct
    \/ Capture
    \/ Upload
    \/ Poll
    \/ Wait

SpecListeners == Init /\ [][NextListeners]_vars

(* -------------------- the semantic EnhancedReplayer -------------------- *)

\* the filter with a strict comparison
relevantLabels_Strict(labels, timestamp) ==
    SelectSeq(labels, LAMBDA label : label.timestamp < timestamp)

\* semanticLabels.filter(label => label.timestamp <= timestamp) (lines 53-55)
relevantLabels(labels, timestamp) ==
    SelectSeq(labels, LAMBDA label : label.timestamp <= timestamp)

\* mirror.getNode(id) returns a node (line 59)
getNode(m, id) == id \in m

\* attachSemanticLabels without `innerHTML = ''`
ClearOverlays_Keep(children) == children

\* overlayContainer.innerHTML = '' (line 50)
ClearOverlays(children) == <<>>

\* the loop of attachSemanticLabels (lines 58-63): one overlay, built from
\* the label, is appended for every label whose node resolves
RECURSIVE AttachFrom(_, _, _, _)
AttachFrom(children, labels, m, i) ==
    IF i > Len(labels) THEN children
    ELSE IF getNode(m, labels[i].elementId)
         THEN AttachFrom(Append(children, labels[i]), labels, m, i + 1)
         ELSE AttachFrom(children, labels, m, i + 1)

\* attachSemanticLabels(timestamp) (lines 46-64) on the mirror m
attachSemanticLabels(timestamp, m) ==
    overlayContainer' =
        IF overlayContainer = Null THEN Null
        ELSE Some(AttachFrom(ClearOverlays(overlayContainer.value),
                             relevantLabels(semanticLabels, timestamp), m, 1))

\* getCurrentTime() of Replayer: the offset of the playback clock
getCurrentTime == currentTime

\* play(timeOffset) (lines 103-108); Replayer.play starts the timer at
\* timeOffset
play(timeOffset) ==
    /\ currentTime' = timeOffset
    /\ playing' = TRUE
    /\ attachSemanticLabels(getCurrentTime', replayMirror)
    /\ lastCall' = [op |-> "play", time |-> getCurrentTime']
    /\ UNCHANGED << semanticLabels, replayMirror, reconstructorVars, loaderVars, pluginVars >>

\* pause() (lines 110-115); Replayer.pause stops the timer where it is
pause ==
    /\ playing' = FALSE
    /\ attachSemanticLabels(getCurrentTime, replayMirror)
    /\ lastCall' = [op |-> "pause", time |-> getCurrentTime]
    /\ UNCHANGED << semanticLabels, replayMirror, currentTime, reconstructorVars, loaderVars, pluginVars >>

\* resume(timeOffset) (lines 117-122)
resume(timeOffset) ==
    /\ currentTime' = timeOffset
    /\ playing' = TRUE
    /\ attachSemanticLabels(getCurrentTime', replayMirror)
    /\ lastCall' = [op |-> "resume", time |-> getCurrentTime']
    /\ UNCHANGED << semanticLabels, replayMirror, reconstructorVars, loaderVars, pluginVars >>

\* rebuildFullSnapshot(event) (lines 35-44); Replayer.rebuildFullSnapshot
\* resets the mirror and rebuilds the tree of the event
rebuildFullSnapshot(event) ==
    /\ event.type = FullSnapshot
    /\ replayMirror' = event.node
    /\ attachSemanticLabels(event.timestamp, replayMirror')
    /\ lastCall' = [op |-> "rebuildFullSnapshot", time |-> event.timestamp]
    /\ UNCHANGED << semanticLabels, currentTime, playing, reconstructorVars, loaderVars, pluginVars >>

\* the timer of Replayer advances the playback clock; no method of
\* EnhancedReplayer runs
Tick ==
    /\ playing
    /\ currentTime < MaxTime
    /\ currentTime' = currentTime + 1
    /\ UNCHANGED << semanticLabels, overlayContainer, replayMirror, playing, lastCall,
                    reconstructorVars, loaderVars, pluginVars >>

\* destroy() without the removal of its overlay container
destroyReplayer_KeepOverlays ==
    /\ playing' = FALSE
    /\ replayMirror' = {}
    /\ lastCall' = [op |-> "destroy", time |-> getCurrentTime]
    /\ UNCHANGED << overlayContainer, semanticLabels, currentTime, reconstructorVars,
                    loaderVars, pluginVars >>

\* destroy() (lines 124-130); Replayer.destroy pauses and resets the mirror
destroyReplayer ==
    /\ overlayContainer' = Null
    /\ playing' = FALSE
    /\ replayMirror' = {}
    /\ lastCall' = [op |-> "destroy", time |-> getCurrentTime]
    /\ UNCHANGED << semanticLabels, currentTime, reconstructorVars, loaderVars, pluginVars >>

InitOverlay ==
    /\ InitReconstructor
    /\ \E labels \in LabelLists : InitReplayer(labels)
    /\ InitLoader
    /\ InitPlugin
    /\ InitHighlight(NoDetections)
    /\ InitMapper(<<>>)
    /\ InitEnhance
    /\ InitPlayer
    /\ InitObserver

Play == \E timeOffset \in Offsets : play(timeOffset)

Resume == \E timeOffset \in Offsets : resume(timeOffset)

RebuildFullSnapshot ==
    \E i \in 1..Len(RecordedEvents) : rebuildFullSnapshot(RecordedEvents[i])

NextOverlay ==
    \/ Play
    \/ pause
    \/ Resume
    \/ RebuildFullSnapshot
    \/ Tick
    \/ destroyReplayer

SpecOverlay == InitOverlay /\ [][NextOverlay]_vars

(* ------------- the load effect of SemanticInteractivePlayer ------------ *)

\* the events stored for the session of run r
SessionEvents(r) == << Event(FullSnapshot, r, {r}) >>

\* what processSession can resolve to: processedSession.semanticMapping
Mappings == { <<>>, << Label(1, 0) >> }

\* how an awaited promise settles: with a value, or with a rejection (none
\* stands in for the value it does not have)
Fulfilled(v) == [ok |-> TRUE, value |-> v]
Refused(none) == [ok |-> FALSE, value |-> none]

\* containerRef.current: the container div is rendered unless the error
\* view is (lines 97-121), and the ref is cleared at unmount
containerRef == mounted /\ pageError = Null

\* the catch of loadAndProcessSession (lines 74-84)
LoadCatch(r, message) ==
    /\ pageError' = Some(message)
    /\ loadPc' = [loadPc EXCEPT ![r] = "failed"]

\* the effect runs: loadAndProcessSession up to its first await (lines
\* 31-37, 87); a rerun follows the cleanup of the run before it
StartEffect(hasSessionId) ==
    /\ mounted
    /\ nRuns < MaxRuns
    /\ nRuns = 0 \/ nRuns \in cleaned
    /\ nRuns' = nRuns + 1
    /\ loadPc' = [loadPc EXCEPT ![nRuns + 1] =
         IF hasSessionId /\ containerRef THEN "getSession" ELSE "returned"]
    /\ UNCHANGED << loadedEvents, replayerRef, pageError, isProcessing, eventsState,
                    labelsState, cleaned, mounted, reconstructorVars, replayerVars, pluginVars >>

\* getSession settles (lines 37-42); session is TRUE, or FALSE for null
GetSessionSettles(r, outcome) ==
    /\ loadPc[r] = "getSession"
    /\ IF ~outcome.ok THEN LoadCatch(r, "getSession rejected")
       ELSE IF ~outcome.value THEN LoadCatch(r, "Session not found")
       ELSE loadPc' = [loadPc EXCEPT ![r] = "getEvents"] /\ UNCHANGED pageError
    /\ UNCHANGED << nRuns, loadedEvents, replayerRef, isProcessing, eventsState, labelsState,
                    cleaned, mounted, reconstructorVars, replayerVars, pluginVars >>

\* getEvents settles (lines 42-51)
GetEventsSettles(r, outcome) ==
    /\ loadPc[r] = "getEvents"
    /\ IF ~outcome.ok
       THEN LoadCatch(r, "getEvents rejected") /\ UNCHANGED << loadedEvents, eventsState >>
       ELSE IF Len(outcome.value) = 0
       THEN /\ LoadCatch(r, "No events found for session")
            /\ UNCHANGED << loadedEvents, eventsState >>
       ELSE /\ loadedEvents' = [loadedEvents EXCEPT ![r] = outcome.value]
            /\ eventsState' = outcome.value
            /\ loadPc' = [loadPc EXCEPT ![r] = "processSession"]
            /\ UNCHANGED pageError
    /\ UNCHANGED << nRuns, replayerRef, isProcessing, labelsState, cleaned, mounted,
                    reconstructorVars, replayerVars, pluginVars >>

\* processSession settles (lines 51-73)
ProcessSessionSettles(r, outcome) ==
    /\ loadPc[r] = "processSession"
    /\ IF ~outcome.ok
       THEN /\ LoadCatch(r, "processSession rejected")
            /\ UNCHANGED << labelsState, replayerRef, isProcessing >>
       ELSE /\ labelsState' = outcome.value
            /\ replayerRef' =
                 IF replayerRef = Null /\ containerRef
                 THEN Some([events |-> loadedEvents[r], semanticLabels |-> outcome.value])
                 ELSE replayerRef
            /\ isProcessing' = FALSE
            /\ loadPc' = [loadPc EXCEPT ![r] = "done"]
            /\ UNCHANGED pageError
    /\ UNCHANGED << nRuns, loadedEvents, eventsState, cleaned, mounted,
                    reconstructorVars, replayerVars, pluginVars >>

\* the cleanup of the latest run (lines 89-94), at a change of sessionId or
\* at unmount; a load in flight is left running
Cleanup(unmount) ==
    /\ mounted
    /\ nRuns > 0
    /\ nRuns \notin cleaned
    /\ replayerRef' = Null
    /\ cleaned' = cleaned \cup {nRuns}
    /\ mounted' = ~unmount
    /\ UNCHANGED << nRuns, loadPc, loadedEvents, pageError, isProcessing, eventsState,
                    labelsState, reconstructorVars, replayerVars, pluginVars >>

Effect == \E hasSessionId \in BOOLEAN : StartEffect(hasSessionId)

GetSession ==
    \E r \in Runs, outcome \in {Fulfilled(TRUE), Fulfilled(FALSE), Refused(FALSE)} :
        GetSessionSettles(r, outcome)

GetEvents ==
    \E r \in Runs : \E outcome \in {Fulfilled(SessionEvents(r)), Fulfilled(<<>>), Refused(<<>>)} :
        GetEventsSettles(r, outcome)

ProcessSession ==
    \E r \in Runs, outcome \in { Fulfilled(m) : m \in Mappings } \cup {Refused(<<>>)} :
        ProcessSessionSettles(r, outcome)

EffectCleanup == \E unmount \in BOOLEAN : Cleanup(unmount)

NextLoader ==
    \/ Effect
    \/ GetSession
    \/ GetEvents
    \/ ProcessSession
    \/ EffectCleanup

SpecLoader == Init /\ [][NextLoader]_vars

(* ------------- highlightMatchingElements of the plugin ----------------- *)

\* a string is the sequence of its tokens: its characters, and the runs of
\* characters the code never takes apart
TextBoxID == "Text Box ID "

\* a value of the coordinates object: an array of literals, or a literal;
\* the literals are "0.1", "0.2", "0.3" and "null"
Arr(items) == [isArray |-> TRUE, items |-> items]
Lit(literal) == [isArray |-> FALSE, items |-> <<literal>>]

Entry(id, coords) == [id |-> id, coords |-> coords]

\* result.data of a prediction: the parsed-content text data[1], by the
\* lines split('\n') makes of it, the coordinates object data[2], by its
\* entries in the order of Object.entries, and the form data[2] comes in
GradioData ==
    LET LinePool ==
            { <<TextBoxID, "1", ":", " ", "Login">>,
              <<TextBoxID, "1", "0", ":", " ", "Menu", " ">>,
              <<TextBoxID, "1", ":", " ">>,
              <<TextBoxID, "1", ":">>,
              <<TextBoxID, "1", "0", ":", "Menu">>,
              <<"Icon Box ID ", "1", ":", " ", "Login">> }
        CoordsPool ==
            { Arr(<<"0.1", "0.1", "0.3", "0.2">>),
              Arr(<<"0.1", "0.1", "0.3">>),
              Arr(<<"null", "0.1", "0.3", "0.2">>),
              Lit("null") }
        ParsedTexts == UNION { [1..n -> LinePool] : n \in 0..MaxLines }
        CoordinateObjects ==
            {<<>>}
                \cup { <<Entry(id, c)>> : id \in {<<"1">>, <<"1", "0">>}, c \in CoordsPool }
                \cup { <<Entry(<<"1">>, c), Entry(<<"1", "0">>, d)>> :
                         c \in CoordsPool, d \in CoordsPool }
    IN { [parsedText |-> t, object |-> o, form |-> f] :
           t \in ParsedTexts, o \in CoordinateObjects, f \in {"object", "single", "double"} }

\* the text of the object as the service writes it, between the quotes
\* given and without white space: {'1':[0.1,0.1,0.3,0.2]}
Write(object, quote) ==
    LET RECURSIVE Join(_, _)
        Join(items, i) ==
            IF i > Len(items) THEN <<>>
            ELSE (IF i > 1 THEN <<",">> ELSE <<>>) \o <<items[i]>> \o Join(items, i + 1)
        WriteValue(v) ==
            IF v.isArray THEN <<"[">> \o Join(v.items, 1) \o <<"]">> ELSE v.items
        RECURSIVE WriteMembers(_)
        WriteMembers(i) ==
            IF i > Len(object) THEN <<>>
            ELSE (IF i > 1 THEN <<",">> ELSE <<>>)
                     \o <<quote>> \o object[i].id \o <<quote, ":">>
                     \o WriteValue(object[i].coords) \o WriteMembers(i + 1)
    IN <<"{">> \o WriteMembers(1) \o <<"}">>

\* result.data[2] as it is delivered: the object, or its text
Coordinates(object, form) ==
    CASE form = "object" -> [isString |-> FALSE, object |-> object, string |-> <<>>]
      [] form = "single" -> [isString |-> TRUE, object |-> <<>>, string |-> Write(object, "'")]
      [] form = "double" -> [isString |-> TRUE, object |-> <<>>, string |-> Write(object, "\"")]

\* the canvas html2canvas drew, halved (lines 871-872)
canvasSize == [width |-> 800, height |-> 600]

\* str[i - 1] of JavaScript, "" past the end
Tok(str, i) == IF i \in 1..Len(str) THEN str[i] ELSE ""

\* coordinates.replace(/'/g, '"') with the g flag lost
ReplaceQuotes_First(str) ==
    [i \in 1..Len(str) |->
        IF str[i] = "'" /\ \A j \in 1..(i - 1) : str[j] # "'" THEN "\"" ELSE str[i]]

\* coordinates.replace(/'/g, '"') (line 628)
ReplaceQuotes(str) == [i \in 1..Len(str) |-> IF str[i] = "'" THEN "\"" ELSE str[i]]

\* JSON.parse on the text of an object whose keys are written in
\* ascending order, as Object.entries lists them; not ok is a SyntaxError
JSONParse(str) ==
    LET SyntaxError == [ok |-> FALSE, value |-> <<>>, next |-> 0]
        Literals == {"0.1", "0.2", "0.3", "null"}
        \* the literals of an array from position i on, up to its "]"
        RECURSIVE ParseItems(_, _)
        ParseItems(i, items) ==
            IF Tok(str, i) \notin Literals THEN SyntaxError
            ELSE IF Tok(str, i + 1) = ","
                 THEN ParseItems(i + 2, Append(items, str[i]))
            ELSE IF Tok(str, i + 1) = "]"
                 THEN [ok |-> TRUE, value |-> Arr(Append(items, str[i])), next |-> i + 2]
            ELSE SyntaxError
        \* a value at position i: an array or a literal
        ParseValue(i) ==
            IF Tok(str, i) = "["
            THEN IF Tok(str, i + 1) = "]"
                 THEN [ok |-> TRUE, value |-> Arr(<<>>), next |-> i + 2]
                 ELSE ParseItems(i + 1, <<>>)
            ELSE IF Tok(str, i) \in Literals
                 THEN [ok |-> TRUE, value |-> Lit(str[i]), next |-> i + 1]
            ELSE SyntaxError
        \* the characters of a string from position i on, up to its quote
        RECURSIVE ParseString(_, _)
        ParseString(i, chars) ==
            IF i > Len(str) THEN SyntaxError
            ELSE IF str[i] = "\"" THEN [ok |-> TRUE, value |-> chars, next |-> i + 1]
            ELSE ParseString(i + 1, Append(chars, str[i]))
        \* the members of an object from position i on, up to its final "}"
        RECURSIVE ParseMembers(_, _)
        ParseMembers(i, members) ==
            IF Tok(str, i) # "\"" THEN SyntaxError
            ELSE LET key == ParseString(i + 1, <<>>)
                 IN IF ~key.ok \/ Tok(str, key.next) # ":" THEN SyntaxError
                    ELSE LET v == ParseValue(key.next + 1)
                             entries == Append(members, Entry(key.value, v.value))
                         IN IF ~v.ok THEN SyntaxError
                            ELSE IF Tok(str, v.next) = ","
                                 THEN ParseMembers(v.next + 1, entries)
                            ELSE IF Tok(str, v.next) = "}" /\ v.next = Len(str)
                                 THEN [ok |-> TRUE, value |-> entries, next |-> v.next + 1]
                            ELSE SyntaxError
    IN IF Tok(str, 1) # "{" THEN SyntaxError
       ELSE IF Tok(str, 2) = "}" /\ Len(str) = 2
            THEN [ok |-> TRUE, value |-> <<>>, next |-> 3]
       ELSE ParseMembers(2, <<>>)

\* coordinateObject (lines 623-635); not ok is the return of line 631
ParseCoordinates(coordinates) ==
    IF coordinates.isString
    THEN JSONParse(ReplaceQuotes(coordinates.string))
    ELSE [ok |-> TRUE, value |-> coordinates.object, next |-> 0]

\* line.startsWith(prefix)
StartsWith(line, prefix) ==
    Len(line) >= Len(prefix) /\ SubSeq(line, 1, Len(prefix)) = prefix

\* str.trim()
RECURSIVE Trim(_)
Trim(str) ==
    IF str # <<>> /\ Head(str) = " " THEN Trim(Tail(str))
    ELSE IF str # <<>> /\ str[Len(str)] = " " THEN Trim(SubSeq(str, 1, Len(str) - 1))
    ELSE str

\* the text of the box of a detection (lines 671-676), <<>> for ''
TextOf(parsedText, id) ==
    LET \* find: the index of the first line starting with the prefix, 0
        \* for undefined
        RECURSIVE FindLine(_)
        FindLine(i) ==
            IF i > Len(parsedText) THEN 0
            ELSE IF StartsWith(parsedText[i], <<TextBoxID>> \o id \o <<":">>) THEN i
            ELSE FindLine(i + 1)
        \* the length of the run of digits of line from position i on
        RECURSIVE DigitsFrom(_, _)
        DigitsFrom(line, i) ==
            IF Tok(line, i) \in {"0", "1"} THEN 1 + DigitsFrom(line, i + 1) ELSE 0
        \* line.replace(/^Text Box ID \d+: /, '') (line 675)
        StripPrefix(line) ==
            LET n == DigitsFrom(line, 2)
            IN IF /\ Tok(line, 1) = TextBoxID
                  /\ n >= 1
                  /\ Tok(line, 2 + n) = ":"
                  /\ Tok(line, 3 + n) = " "
               THEN SubSeq(line, 4 + n, Len(line))
               ELSE line
        found == FindLine(1)
    IN IF found = 0 THEN <<>> ELSE Trim(StripPrefix(parsedText[found]))

\* the callback of Object.entries(coordinateObject).map (lines 646-679)
ParsedBox(parsedText, entry, canvas) ==
    LET \* Number(value) on a literal, in 1/1000
        Number(literal) ==
            CASE literal = "null" -> 0
              [] literal = "0.1" -> 100
              [] literal = "0.2" -> 200
              [] literal = "0.3" -> 300
        \* Math.round(fraction * size)
        Round(fraction, size) == (fraction * size + 500) \div 1000
        \* the box of lines 650 and 657
        ZeroBox ==
            [id |-> entry.id, coords |-> [x |-> 0, y |-> 0, width |-> 0, height |-> 0],
             text |-> <<>>]
    IN IF ~entry.coords.isArray \/ Len(entry.coords.items) # 4 THEN ZeroBox
       ELSE LET coordArray == [i \in 1..4 |-> Number(entry.coords.items[i])]
            IN IF \E i \in 1..4 : coordArray[i] = NaN THEN ZeroBox
               ELSE [id |-> entry.id,
                     coords |-> [x |-> Round(coordArray[1], canvas.width),
                                 y |-> Round(coordArray[2], canvas.height),
                                 width |-> Round(coordArray[3], canvas.width),
                                 height |-> Round(coordArray[4], canvas.height)],
                     text |-> TextOf(parsedText, entry.id)]

\* boxes (lines 645-680)
Boxes(parsedText, object, canvas) ==
    SelectSeq([i \in 1..Len(object) |-> ParsedBox(parsedText, object[i], canvas)],
              LAMBDA box : box.text # <<>>)

\* highlightMatchingElements(parsedText, coordinates, canvasWidth,
\* canvasHeight) (lines 617-814): "returned" at line 631, "matched" at
\* its end.  Which boxes find an element of the page scoring above 0.3
\* rests on the page, which is any page: matched
highlightMatchingElements(parsedText, coordinates, canvas) ==
    LET parsed == ParseCoordinates(coordinates)
    IN IF ~parsed.ok
       THEN /\ highlightPc' = "returned"
            /\ coordinateObject' = Null
            /\ boxes' = <<>>
            /\ UNCHANGED highlighted
       ELSE LET bs == Boxes(parsedText, parsed.value, canvas)
            IN /\ highlightPc' = "matched"
               /\ coordinateObject' = Some(parsed.value)
               /\ boxes' = bs
               /\ \E matched \in SUBSET (1..Len(bs)) :
                      highlighted' = highlighted \cup { bs[i].text : i \in matched }

\* the call of line 893
HighlightData ==
    highlightMatchingElements(gradioData.parsedText,
                              Coordinates(gradioData.object, gradioData.form), canvasSize)

(* --------- the screenshot-analysis plugin of InteractivePlayer --------- *)

\* the catch of analyzeScreenshot (lines 897-899)
ShotCatch(k) == shotPc' = [shotPc EXCEPT ![k] = "failed"]

\* handler(event, isSync, context) with a FullSnapshot (lines 903-907):
\* analyzeScreenshot up to its first await (lines 825-865).  iframe is
\* "none" when the page has no iframe with a document, "detached" when the
\* replayer's own iframe has no document, "found" otherwise
Handler(event, iframe) ==
    /\ event.type = FullSnapshot
    /\ nShots < MaxShots
    /\ nShots' = nShots + 1
    /\ shotPlaying' = [shotPlaying EXCEPT ![nShots + 1] = replayerPlaying]
    /\ IF analysisComplete
       THEN /\ shotPc' = [shotPc EXCEPT ![nShots + 1] = "skipped"]
            /\ UNCHANGED replayerPlaying
       ELSE IF iframe = "none"
       THEN /\ shotPc' = [shotPc EXCEPT ![nShots + 1] = "returned"]
            /\ UNCHANGED replayerPlaying
       ELSE /\ replayerPlaying' = FALSE
            /\ shotPc' = [shotPc EXCEPT ![nShots + 1] =
                 IF iframe = "detached" THEN "returned" ELSE "html2canvas"]
    /\ UNCHANGED << analysisComplete, userActed, parseResults,
                    highlightVars,
                    reconstructorVars, replayerVars, loaderVars >>

\* html2canvas settles (lines 865-876)
CanvasSettles(k, ok) ==
    /\ shotPc[k] = "html2canvas"
    /\ IF ok THEN shotPc' = [shotPc EXCEPT ![k] = "toBlob"] ELSE ShotCatch(k)
    /\ UNCHANGED << nShots, shotPlaying, analysisComplete, replayerPlaying, userActed,
                    parseResults, highlightVars,
                    reconstructorVars, replayerVars, loaderVars >>

\* canvas.toBlob calls back (lines 874-878)
BlobSettles(k) ==
    /\ shotPc[k] = "toBlob"
    /\ shotPc' = [shotPc EXCEPT ![k] = "connect"]
    /\ UNCHANGED << nShots, shotPlaying, analysisComplete, replayerPlaying, userActed,
                    parseResults, highlightVars,
                    reconstructorVars, replayerVars, loaderVars >>

\* Client.connect settles (lines 878-883)
ConnectSettles(k, ok) ==
    /\ shotPc[k] = "connect"
    /\ IF ok THEN shotPc' = [shotPc EXCEPT ![k] = "predict"] ELSE ShotCatch(k)
    /\ UNCHANGED << nShots, shotPlaying, analysisComplete, replayerPlaying, userActed,
                    parseResults, highlightVars,
                    reconstructorVars, replayerVars, loaderVars >>

\* client.predict settles (lines 879-899); a fulfilled value is the
\* parsed-content text result.data[1], TRUE when it is a string
PredictSettles(k, outcome) ==
    /\ shotPc[k] = "predict"
    /\ IF outcome.ok /\ outcome.value
       THEN /\ parseResults' = Some(k)
            /\ HighlightData
            /\ analysisComplete' = TRUE
            /\ shotPc' = [shotPc EXCEPT ![k] = "done"]
       ELSE /\ ShotCatch(k)
            /\ UNCHANGED << parseResults, analysisComplete, highlightPc, coordinateObject,
                            boxes, highlighted >>
    /\ UNCHANGED << nShots, shotPlaying, replayerPlaying, userActed, gradioData,
                    reconstructorVars, replayerVars, loaderVars >>

\* the user presses play or pause on the controller of the player
UserToggle ==
    /\ replayerPlaying' = ~replayerPlaying
    /\ userActed' = TRUE
    /\ UNCHANGED << nShots, shotPc, shotPlaying, analysisComplete, parseResults,
                    highlightVars,
                    reconstructorVars, replayerVars, loaderVars >>

PluginHandler ==
    \E i \in 1..Len(RecordedEvents), iframe \in {"none", "detached", "found"} :
        Handler(RecordedEvents[i], iframe)

Canvas == \E k \in Shots, ok \in BOOLEAN : CanvasSettles(k, ok)

Blob == \E k \in Shots : BlobSettles(k)

Connect == \E k \in Shots, ok \in BOOLEAN : ConnectSettles(k, ok)

Predict ==
    \E k \in Shots, outcome \in {Fulfilled(TRUE), Fulfilled(FALSE), Refused(FALSE)} :
        PredictSettles(k, outcome)

NextPlugin ==
    \/ PluginHandler
    \/ Canvas
    \/ Blob
    \/ Connect
    \/ Predict
    \/ UserToggle

SpecPlugin == Init /\ [][NextPlugin]_vars

\* highlightMatchingElements on every result.data
Highlight ==
    /\ HighlightData
    /\ UNCHANGED << nShots, shotPc, shotPlaying, analysisComplete, replayerPlaying,
                    userActed, parseResults, gradioData,
                    reconstructorVars, replayerVars, loaderVars >>

InitBoxes ==
    /\ InitReconstructor
    /\ InitReplayer(<<>>)
    /\ InitLoader
    /\ InitPlugin
    /\ InitMapper(<<>>)
    /\ InitEnhance
    /\ InitPlayer
    /\ InitObserver
    /\ \E data \in GradioData : InitHighlight(data)

SpecHighlight == InitBoxes /\ [][Highlight]_vars

(* ------------------ the label mapping of analyzeImage ------------------ *)

\* analyzeImage maps the results pollResults returned (lines 431-435)
MapResults ==
    /\ mappedLabels = Null
    /\ \E timestamp \in Clock :
           mappedLabels' = Some(SemanticLabels(1, serviceResults, timestamp))
    /\ UNCHANGED << processorVars, replayerVars, loaderVars, pluginVars, serviceResults,
                    enhanceVars, playerVars, observerVars >>

InitLabels ==
    /\ InitReconstructor
    /\ InitReplayer(<<>>)
    /\ InitLoader
    /\ InitPlugin
    /\ InitHighlight(NoDetections)
    /\ \E data \in ServiceResults : InitMapper(data)
    /\ InitEnhance
    /\ InitPlayer
    /\ InitObserver

SpecLabels == InitLabels /\ [][MapResults]_vars

(* ------------------- enhanceEventsWithSemanticLabels ------------------- *)

\* labelsByTimestamp.get(timestamp) (lines 63-69, 73): the labels of the
\* mapping with that timestamp, in its order; <<>> for undefined
LabelsAt(semanticMapping, timestamp) ==
    SelectSeq(semanticMapping, LAMBDA label : label.timestamp = timestamp)

\* enhanceEventsWithSemanticLabels(events) up to its await (lines 53-60)
Enhance ==
    \E events \in EventLists \cup {<<>>} :
        /\ enhancePc = "idle"
        /\ enhancePc' = "processSession"
        /\ enhanceInput' = [events |-> events, semanticMapping |-> <<>>]
        /\ enhanceProcessor' = << "processSession" >>
        /\ UNCHANGED << enhanceResult, processorVars, replayerVars, loaderVars, pluginVars,
                        mapperVars, playerVars, observerVars >>

\* processor.destroy() as the last statement of the try block, without the
\* finally
EnhanceProcessed_DestroyInTry ==
    \E outcome \in { Fulfilled(m) : m \in LabelLists } \cup { Refused(<<>>) },
       tdz \in BOOLEAN :
        /\ enhancePc = "processSession"
        /\ enhancePc' = "settled"
        /\ IF ~outcome.ok
           THEN /\ enhanceResult' = Outcome("rejected", "processSession", FALSE, <<>>)
                /\ UNCHANGED enhanceInput
           ELSE /\ enhanceInput' = [enhanceInput EXCEPT !.semanticMapping = outcome.value]
                /\ enhanceResult' =
                      IF /\ tdz
                         /\ \E i \in 1..Len(enhanceInput.events) :
                                LabelsAt(outcome.value, enhanceInput.events[i].timestamp) = <<>>
                      THEN Outcome("rejected", "ReferenceError", FALSE, <<>>)
                      ELSE Outcome("resolved", "", FALSE, <<>>)
        /\ enhanceProcessor' =
              IF enhanceResult'.kind = "resolved"
              THEN Append(enhanceProcessor, "destroy") ELSE enhanceProcessor
        /\ UNCHANGED << processorVars, replayerVars, loaderVars, pluginVars, mapperVars,
                        playerVars, observerVars >>

\* processSession settles (lines 60-85).  The callback of events.map reads
\* enhancedEvents, the constant being initialised, for an event without
\* labels (line 80): a ReferenceError where the build keeps the const
\* (tdz), undefined where it makes a var of it; the function has no return.
\* The finally block runs on each of these paths (lines 82-85)
EnhanceProcessed ==
    \E outcome \in { Fulfilled(m) : m \in LabelLists } \cup { Refused(<<>>) },
       tdz \in BOOLEAN :
        /\ enhancePc = "processSession"
        /\ enhancePc' = "settled"
        /\ enhanceProcessor' = Append(enhanceProcessor, "destroy")
        /\ IF ~outcome.ok
           THEN /\ enhanceResult' = Outcome("rejected", "processSession", FALSE, <<>>)
                /\ UNCHANGED enhanceInput
           ELSE /\ enhanceInput' = [enhanceInput EXCEPT !.semanticMapping = outcome.value]
                /\ enhanceResult' =
                      IF /\ tdz
                         /\ \E i \in 1..Len(enhanceInput.events) :
                                LabelsAt(outcome.value, enhanceInput.events[i].timestamp) = <<>>
                      THEN Outcome("rejected", "ReferenceError", FALSE, <<>>)
                      ELSE Outcome("resolved", "", FALSE, <<>>)
        /\ UNCHANGED << processorVars, replayerVars, loaderVars, pluginVars, mapperVars,
                        playerVars, observerVars >>

SpecEnhance == Init /\ [][Enhance \/ EnhanceProcessed]_vars

(* ------------- the effect of the player pages (Player.tsx) ------------- *)

\* the effect runs, at the mount and at every change of sessionId, after
\* the cleanup the run before it returned, if it returned one: that pauses
\* the player there is (Player.tsx lines 119-128, 151-153).  Run r is for
\* the session id r; without a session id the effect returns at once
PlayerEffect ==
    \E hasSessionId \in BOOLEAN :
        /\ playerEl
        /\ playerRuns < MaxRuns
        /\ playerRuns' = playerRuns + 1
        /\ playerRef' =
              IF /\ playerRuns > 0
                 /\ playerLoads[playerRuns].getEvents # "none"
                 /\ ~playerRef.isNull
              THEN Some([playerRef.value EXCEPT !.playing = FALSE])
              ELSE playerRef
        /\ playerLoads' =
              IF hasSessionId
              THEN [playerLoads EXCEPT ![playerRuns + 1] =
                       [getSession |-> "pending", getEvents |-> "pending"]]
              ELSE playerLoads
        /\ UNCHANGED << sessionName, playerEl, processorVars, replayerVars, loaderVars,
                        pluginVars, mapperVars, enhanceVars, observerVars >>

\* getSession of run r settles (lines 121-127); a session that is not
\* stored makes session.name throw, into the catch that logs
PlayerSessionSettles ==
    \E r \in Runs, outcome \in {Fulfilled(TRUE), Fulfilled(FALSE), Refused(FALSE)} :
        /\ playerLoads[r].getSession = "pending"
        /\ playerLoads' = [playerLoads EXCEPT ![r].getSession =
                              IF outcome.ok /\ outcome.value THEN "settled" ELSE "failed"]
        /\ sessionName' = IF outcome.ok /\ outcome.value THEN r ELSE sessionName
        /\ UNCHANGED << playerRuns, playerRef, playerEl, processorVars, replayerVars,
                        loaderVars, pluginVars, mapperVars, enhanceVars, observerVars >>

\* getEvents of run r settles (lines 128-150): the player there is is
\* destroyed and one over the events of run r, playing, takes its place
PlayerEventsSettle ==
    \E r \in Runs : \E outcome \in {Fulfilled(SessionEvents(r)), Refused(<<>>)} :
        /\ playerLoads[r].getEvents = "pending"
        /\ IF ~outcome.ok
           THEN /\ playerLoads' = [playerLoads EXCEPT ![r].getEvents = "failed"]
                /\ UNCHANGED playerRef
           ELSE /\ playerLoads' = [playerLoads EXCEPT ![r].getEvents = "settled"]
                /\ playerRef' =
                      IF playerEl
                      THEN Some([events |-> outcome.value, playing |-> TRUE])
                      ELSE playerRef
        /\ UNCHANGED << playerRuns, sessionName, playerEl, processorVars, replayerVars,
                        loaderVars, pluginVars, mapperVars, enhanceVars, observerVars >>

\* the page is unmounted: the cleanup of the latest run pauses the player
\* (lines 151-153) and the element ref is cleared
PlayerUnmount ==
    /\ playerEl
    /\ playerRuns > 0
    /\ playerEl' = FALSE
    /\ playerRef' =
          IF playerLoads[playerRuns].getEvents # "none" /\ ~playerRef.isNull
          THEN Some([playerRef.value EXCEPT !.playing = FALSE])
          ELSE playerRef
    /\ UNCHANGED << playerRuns, playerLoads, sessionName, processorVars, replayerVars,
                    loaderVars, pluginVars, mapperVars, enhanceVars, observerVars >>

NextPlayer ==
    \/ PlayerEffect
    \/ PlayerSessionSettles
    \/ PlayerEventsSettle
    \/ PlayerUnmount

SpecPlayer == Init /\ [][NextPlayer]_vars

(* ------- the iframe observer of the interactive EnhancedReplayer ------- *)

\* a MutationRecord, by what the callback reads of it: its target, the
\* replayer's iframe or the wrapper, and its type or attribute name
Record(target, name) == [target |-> target, name |-> name]

\* patchIframe(iframe) (InteractivePlayer.tsx lines 222-291): the attributes
\* it leaves and the records its writes queue.  The inline style is "none"
\* with pointer-events: none in it, "plain" without a pointer-events
\* declaration, "auto" as patchIframe leaves it.  The three writes to it
\* (lines 227, 232, 233) queue a record each where they change it; where
\* they set what is set already the engine may queue one or not
\* (sameValueQueues).  setAttribute (line 245) queues its record whatever
\* the value was.  The style element and the listeners go to the document
\* inside the iframe, which the observer does not watch
patchIframe(attrs, enabled, sameValueQueues) ==
    IF ~enabled THEN [attrs |-> attrs, queued |-> <<>>]
    ELSE LET same == IF sameValueQueues THEN 1 ELSE 0
             writes == CASE attrs.style = "none" -> 3
                         [] attrs.style = "plain" -> 2 + same
                         [] attrs.style = "auto" -> 3 * same
         IN [attrs |-> [attrs EXCEPT !.style = "auto", !.sandbox = "patched"],
             queued |-> [k \in 1..writes |-> Record("iframe", "style")]
                           \o << Record("iframe", "sandbox") >>]

\* enableInteract() (lines 293-306), Replayer's own enableInteract aside
enableInteract ==
    \E sameValueQueues \in BOOLEAN :
        LET patched == patchIframe(iframeAttrs, TRUE, sameValueQueues)
            wrapper == IF iframeAttrs.wrapper # "auto" \/ sameValueQueues
                       THEN << Record("wrapper", "style") >> ELSE <<>>
            queued == IF observer THEN records \o patched.queued \o wrapper ELSE records
        IN /\ Len(queued) <= MaxRecords
           /\ isInteractionEnabled' = TRUE
           /\ iframeAttrs' = [patched.attrs EXCEPT !.wrapper = "auto"]
           /\ records' = queued
           /\ UNCHANGED << observer, observerRuns, processorVars, replayerVars, loaderVars, pluginVars,
                           mapperVars, enhanceVars, playerVars >>

\* disableInteract() (lines 308-311), Replayer's own disableInteract aside
disableInteract ==
    /\ isInteractionEnabled' = FALSE
    /\ UNCHANGED << observer, records, iframeAttrs, observerRuns, processorVars, replayerVars,
                    loaderVars, pluginVars, mapperVars, enhanceVars, playerVars >>

\* the callback of the observer runs on the records queued (lines 191-211):
\* patchIframe for every record of the iframe, an insertion or a change of
\* style or sandbox, in their order; what these calls write is queued for
\* the next run.  Two runs that find and leave the same records are still
\* two runs: observerRuns tells a run from staying idle
ObserverCallback ==
    /\ observer
    /\ records # <<>>
    /\ \E sameValueQueues \in BOOLEAN :
          LET RECURSIVE Handle(_, _, _)
              Handle(k, attrs, queued) ==
                  IF k > Len(records) THEN [attrs |-> attrs, queued |-> queued]
                  ELSE IF records[k].target = "iframe"
                  THEN LET patched == patchIframe(attrs, isInteractionEnabled,
                                                  sameValueQueues)
                       IN Handle(k + 1, patched.attrs, queued \o patched.queued)
                  ELSE Handle(k + 1, attrs, queued)
              handled == Handle(1, iframeAttrs, <<>>)
          IN /\ Len(handled.queued) <= MaxRecords
             /\ iframeAttrs' = handled.attrs
             /\ records' = handled.queued
    /\ observerRuns' = (observerRuns + 1) % RunsModulus
    /\ UNCHANGED << isInteractionEnabled, observer, processorVars, replayerVars,
                    loaderVars, pluginVars, mapperVars, enhanceVars, playerVars >>

\* other code of the page changes the iframe while interaction is
\* disabled: Replayer closes it to the pointer or sets its sandbox, or
\* inserts it anew; the observer, watching document.body with
\* attributeFilter style and sandbox (lines 214-219), gets a record
ExternalMutation ==
    /\ ~isInteractionEnabled
    /\ \E change \in { [name |-> "style", value |-> v] : v \in {"none", "plain"} }
                    \cup { [name |-> "sandbox", value |-> "allow-same-origin"],
                           [name |-> "childList", value |-> ""] } :
          /\ iframeAttrs' =
                CASE change.name = "style" -> [iframeAttrs EXCEPT !.style = change.value]
                  [] change.name = "sandbox" -> [iframeAttrs EXCEPT !.sandbox = change.value]
                  [] change.name = "childList" -> iframeAttrs
          /\ records' = IF observer THEN Append(records, Record("iframe", change.name))
                        ELSE records
          /\ Len(records') <= MaxRecords
    /\ UNCHANGED << isInteractionEnabled, observer, observerRuns, processorVars, replayerVars,
                    loaderVars, pluginVars, mapperVars, enhanceVars, playerVars >>

\* destroy() (lines 313-319): the observer is disconnected, and with it the
\* records not yet delivered are dropped
destroyInteractive ==
    /\ observer
    /\ observer' = FALSE
    /\ records' = <<>>
    /\ UNCHANGED << isInteractionEnabled, iframeAttrs, observerRuns, processorVars, replayerVars,
                    loaderVars, pluginVars, mapperVars, enhanceVars, playerVars >>

NextObserver ==
    \/ enableInteract
    \/ disableInteract
    \/ ObserverCallback
    \/ ExternalMutation
    \/ destroyInteractive

\* the callback of the observer is a microtask: it runs whenever records
\* are queued
FairSpecObserver == Init /\ [][NextObserver]_vars /\ WF_vars(ObserverCallback)

(* ------------------------------ properties ----------------------------- *)

\* pollResults has been entered by call c
PollEntered(c) == jobId[c] # NoJob

\* the job of call c is submitted and its poll has not finished
JobInFlight(c) == pc[c] \in {"fetching", "waiting"}

\* this step is the one in which call d enters analyzeImage
AnalyzeEntered(d) == pc[d] = "rendering" /\ pc'[d] # "rendering" /\ recon'[d].image.captured

\* this step runs notifySemanticLabelSubscribers with labels of call c
LabelsDelivered(c) ==
    /\ notifications' # notifications
    /\ lastNotification'.call = c
    /\ lastNotification'.labels # <<>>

HasResults(r) == r.kind = "Ok" /\ Len(r.results) > 0

NotReady == { Resp("NotFound", <<>>), Resp("Ok", <<>>), Resp("OkAbsent", <<>>) }

\* maxAttempts responses, all of them 404
NotReadyRun == [i \in 1..maxAttempts |-> Resp("NotFound", <<>>)]

\* C1: when analyzeImage is entered while the job of an earlier call is
\* submitted and still polling, the call is a no-op: it makes no POST to the
\* upload endpoint, notifies nobody and resolves to the empty list.
C1_SecondSubmissionIsNoOp ==
    [][\A d \in Calls :
         (AnalyzeEntered(d) /\ \E c \in Calls \ {d} : JobInFlight(c))
            => /\ uploads' = uploads
               /\ ret'[d] = Returned(<<>>)
               /\ UNCHANGED delivery]_vars

\* C2: pollResults makes at most maxAttempts calls to the results endpoint
\* and, once entered, ends; when every response is a 404 it ends after
\* exactly maxAttempts calls, in failure.
C2_PollTerminates ==
    /\ [](\A c \in Calls : fetches[c] <= maxAttempts)
    /\ []((pc[1] = "done" /\ PollEntered(1) /\ trace \in [1..Len(trace) -> {Resp("NotFound", <<>>)}])
            => /\ Len(trace) = maxAttempts
               /\ fetches[1] = maxAttempts
               /\ caught[1] = MaxAttemptsReached
               /\ ret[1] = Returned(<<>>))
    /\ (PollEntered(1) ~> (pc[1] = "done"))

C2_Witness ==
    /\ pc[1] = "done"
    /\ trace = NotReadyRun
    /\ fetches[1] = maxAttempts
    /\ caught[1] = MaxAttemptsReached

\* C3, as stated: an error on the last attempt ends the poll in the same
\* failure as exhausting the attempts on not-ready responses.
C3_LastAttemptErrorIsTimeout ==
    (pc[1] = "done" /\ Len(trace) = maxAttempts /\ trace[maxAttempts].kind \in ErrorKinds)
        => caught[1] = PollRun(NotReadyRun).outcome

\* C3, amended: an error on an attempt before the last never ends the poll
\* (the interval wait and the next fetch follow); an error on the last
\* attempt ends the poll by rethrowing that error, not the max-attempts
\* error, and without a further interval wait; analyzeImage turns both
\* failures into the same result: the empty list, with analysisResults null.
C3_ErrorEndsPollOnlyOnLastAttempt ==
    /\ \A i \in 1..Len(trace) :
         (trace[i].kind \in ErrorKinds /\ i < maxAttempts)
            => \/ i < Len(trace)
               \/ pc[1] = "waiting" /\ attempt[1] = i - 1 /\ waits[1] = i
               \/ pc[1] = "fetching" /\ attempt[1] = i /\ fetches[1] = i + 1
    /\ (pc[1] = "done" /\ Len(trace) = maxAttempts /\ trace[maxAttempts].kind \in ErrorKinds)
         => /\ caught[1] = trace[maxAttempts].kind
            /\ caught[1] # MaxAttemptsReached
            /\ fetches[1] = maxAttempts
            /\ waits[1] = maxAttempts - 1
            /\ ret[1] = Returned(<<>>)
            /\ getAnalysisResults = Null
    /\ (pc[1] = "done" /\ caught[1] = MaxAttemptsReached)
         => /\ fetches[1] = maxAttempts
            /\ waits[1] = maxAttempts
            /\ ret[1] = Returned(<<>>)
            /\ getAnalysisResults = Null

C3_Witness ==
    /\ pc[1] = "done"
    /\ Len(trace) = maxAttempts
    /\ trace[1].kind = "HttpError"
    /\ trace[maxAttempts].kind = "BadJson"
    /\ caught[1] = "BadJson"

\* C4: a 200 with an empty or absent results list is treated like a 404:
\* exchanging the two at any position of the response sequence changes
\* neither the outcome nor the number of fetches nor the number of waits;
\* and the poll of the state machine is the run PollRun computes.
C4_EmptyResultsLikeNotFound ==
    /\ \A i \in 1..Len(trace) :
         trace[i] \in NotReady
            => \A r \in NotReady : PollRun([trace EXCEPT ![i] = r]) = PollRun(trace)
    /\ (PollEntered(1) /\ pc[1] \in {"fetching", "done"})
         => LET run == PollRun(trace)
            IN /\ run.fetches = fetches[1]
               /\ run.waits = waits[1]
               /\ run.results = ret[1].value
               /\ (run.outcome = "pending") = (pc[1] = "fetching")
               /\ (run.outcome \notin {"pending", "returned"}) => caught[1] = run.outcome

C4_Witness ==
    /\ pc[1] = "done"
    /\ Len(trace) = maxAttempts
    /\ trace[1] = Resp("NotFound", <<>>)
    /\ trace[2] = Resp("Ok", <<>>)
    /\ waits[1] = maxAttempts

\* C5: the first response with a non-empty results list ends the poll: it
\* is the last response fetched, analyzeImage resolves to exactly its
\* results, and the subscribers are notified with one label per result.
C5_FirstResultsEndThePoll ==
    \A i \in 1..Len(trace) :
        HasResults(trace[i])
           => /\ i = Len(trace)
              /\ pc[1] = "done"
              /\ fetches[1] = i
              /\ ret[1] = Returned(trace[i].results)
              /\ analysisResults = Some(trace[i].results)
              /\ notifications = 2
              /\ lastNotification.call = 1
              /\ lastNotification.image = image[1]
              /\ Len(lastNotification.labels) = Len(trace[i].results)
              /\ \A k \in 1..Len(trace[i].results) :
                   lastNotification.labels[k].label = trace[i].results[k].text

C5_Witness ==
    /\ Len(trace) = 2
    /\ HasResults(trace[2])
    /\ Len(trace[2].results) = 2
    /\ lastNotification.to # <<>>
    /\ Len(lastNotification.labels) = 2

\* C6: when the poll of a cycle is exhausted without results, analyzeImage
\* resolves to the empty list, analysisResults is null and nothing is
\* delivered; and a notification with a non-empty label set only ever comes
\* from a cycle that has not failed.
C6_TimeoutYieldsEmptyLabelSet ==
    [][\A c \in Calls :
         /\ (PollEntered(c) /\ caught[c] = "" /\ caught'[c] # "")
               => /\ pc'[c] = "done"
                  /\ ret'[c] = Returned(<<>>)
                  /\ getAnalysisResults' = Null
                  /\ UNCHANGED delivery
         /\ LabelsDelivered(c) => caught[c] = "" /\ caught'[c] = "" /\ pc[c] # "done"
         /\ pc[c] = "done" => pc'[c] = "done"]_vars

C6_Witness ==
    \E c \in Calls :
        /\ pc[c] = "done"
        /\ caught[c] = MaxAttemptsReached
        /\ fetches[c] = maxAttempts
        /\ getAnalysisResults = Null
        /\ \E d \in Calls \ {c} : ret[d].value # <<>>

\* C7: every label delivered carries the timestamp of the FullSnapshot
\* event its call reconstructed, and so the timestamp of an input event.
C7_LabelTimestampIsSnapshotTimestamp ==
    \A i \in 1..Len(lastNotification.labels) :
        /\ lastNotification.labels[i].timestamp = snapshot[lastNotification.call].timestamp
        /\ lastNotification.labels[i].timestamp \in EventTimestamps

\* C8: no subscriber is called with the labels of a job that was in flight
\* when destroy() ran.
C8_ResultsAfterDestroyDiscarded ==
    ~ /\ lastNotification.afterDestroy
      /\ lastNotification.call \in orphaned
      /\ lastNotification.labels # <<>>
      /\ lastNotification.to # <<>>

\* C9: once a cycle that started later has notified, no labels of a cycle
\* that started earlier are delivered.
C9_NoStaleResults ==
    [][\A c \in Calls :
         LabelsDelivered(c) => ~ \E d \in Calls : cycleNo[d] > cycleNo[c]]_vars

\* C10: a call made while a job is in flight leaves that job's id, attempt
\* count and position alone, and starts no job of its own while the job is
\* in flight.
C10_InFlightJobUndisturbed ==
    [][\A c \in Calls :
         (JobInFlight(c) /\ \E d \in Calls \ {c} : pc[d] \in {"idle", "rendering"} /\ pc'[d] # pc[d])
            => /\ jobId'[c] = jobId[c]
               /\ attempt'[c] = attempt[c]
               /\ fetches'[c] = fetches[c]
               /\ pc'[c] = pc[c]
               /\ \A d \in Calls \ {c} : pc'[d] # "uploading" /\ cycleNo'[d] = cycleNo[d]]_vars

(* ------------------- properties of the EnhancedReplayer ---------------- *)

\* occurrences of x in the sequence seq
Count(seq, x) == Cardinality({ i \in 1..Len(seq) : seq[i] = x })

\* the times a query is made for: clock offsets and timestamps of events
\* and of labels
QueryTimes ==
    Offsets \cup { RecordedEvents[i].timestamp : i \in 1..Len(RecordedEvents) }
            \cup { label.timestamp : label \in LabelPool }

LifecycleCalls == {"play", "pause", "resume", "rebuildFullSnapshot"}

\* the positions of semanticLabels whose label is active at time t and
\* whose element id resolves in the mirror
MountableAt(t) ==
    { i \in 1..Len(semanticLabels) :
        /\ semanticLabels[i].timestamp <= t
        /\ semanticLabels[i].elementId \in replayMirror }

\* C11: for every time t the filter of attachSemanticLabels returns exactly
\* the labels with timestamp <= t, each as often as it is in the list; for
\* t1 <= t2 the result for t1 is contained in the result for t2; and the
\* overlays mounted by a call are among the result for the time of the call.
C11_QueryIsExactAndMonotone ==
    /\ \A t1 \in QueryTimes :
         /\ \A label \in LabelPool :
              Count(relevantLabels(semanticLabels, t1), label)
                 = IF label.timestamp <= t1 THEN Count(semanticLabels, label) ELSE 0
         /\ \A t2 \in QueryTimes :
              t1 <= t2
                 => \A label \in LabelPool :
                      Count(relevantLabels(semanticLabels, t1), label)
                         <= Count(relevantLabels(semanticLabels, t2), label)
    /\ (lastCall.op \in LifecycleCalls /\ overlayContainer # Null)
         => \A k \in 1..Len(overlayContainer.value) :
              /\ overlayContainer.value[k].timestamp <= lastCall.time
              /\ Count(semanticLabels, overlayContainer.value[k]) > 0

C11_Witness ==
    /\ semanticLabels = << Label(1, 1), Label(1, 11) >>
    /\ lastCall = [op |-> "play", time |-> 1]
    /\ replayMirror = {1, 2}
    /\ overlayContainer = Some(<< Label(1, 1) >>)

\* C12: after any sequence of play, pause, resume and rebuildFullSnapshot
\* calls the overlay container holds exactly one overlay for every label of
\* the list that is active at the time the latest call carried and whose
\* element id resolves in the mirror, and nothing else.
C12_OverlaysAreThoseOfTheLatestCall ==
    (lastCall.op \in LifecycleCalls /\ overlayContainer # Null)
        => LET overlays == overlayContainer.value
               expected == MountableAt(lastCall.time)
           IN /\ Len(overlays) = Cardinality(expected)
              /\ \A label \in LabelPool :
                   Count(overlays, label)
                      = Cardinality({ i \in expected : semanticLabels[i] = label })

C12_Witness ==
    /\ semanticLabels = << Label(3, 0), Label(1, 0) >>
    /\ lastCall = [op |-> "pause", time |-> 1]
    /\ replayMirror = {1, 2}
    /\ overlayContainer = Some(<< Label(1, 0) >>)

\* C13: while the replayer plays, every label whose timestamp the playback
\* clock has reached and whose node resolves has an overlay mounted.
C13_OverlaysFollowTheClock ==
    (playing /\ overlayContainer # Null)
        => \A i \in 1..Len(semanticLabels) :
             (/\ semanticLabels[i].timestamp <= getCurrentTime
              /\ getNode(replayMirror, semanticLabels[i].elementId))
                => Count(overlayContainer.value, semanticLabels[i]) > 0

(* ------------- properties of reconstructFromEvents' failures ----------- *)

HasNoFullSnapshot(events) == \A i \in 1..Len(events) : events[i].type # FullSnapshot

MissingSnapshot == "No full snapshot found in events"
ReconstructionFailure == "Failed to reconstruct DOM"
CaptureFailure == "Failed to generate image snapshot"

IsRejected(r) == "rejected" \in DOMAIN r

\* r is a DOMReconstructionResult the promise resolved with
IsResult(r) ==
    /\ ~IsRejected(r)
    /\ r.settled
    /\ r.document \in BOOLEAN
    /\ r.error \in {"", MissingSnapshot, ReconstructionFailure, CaptureFailure}

\* call c has ended without ever entering analyzeImage
NeverAnalysed(c) ==
    /\ pc[c] = "done"
    /\ image[c] = NoImage
    /\ jobId[c] = NoJob
    /\ cycleNo[c] = 0
    /\ fetches[c] = 0
    /\ ret[c] = NotReturned
    /\ lastNotification.call # c

\* C14: reconstructFromEvents on events without a FullSnapshot resolves to
\* a null document and the missing-snapshot error and changes nothing else:
\* mirror, virtual DOM and surface stay as they were, no image is captured,
\* no upload is made and nobody is notified, then or later.
C14_MissingSnapshotHasNoEffect ==
    /\ [][\A events \in EventLists :
             (HasNoFullSnapshot(events) /\ Reconstruct(events))
                => /\ recon'[nCalls + 1] = Resolved(FALSE, NoImage, MissingSnapshot)
                   /\ pc'[nCalls + 1] = "done"
                   /\ UNCHANGED << domVars, image, uploads, delivery, analysisResults,
                                   subscribers, attached, ret, jobId, cycleNo >>]_vars
    /\ [](\A c \in Calls :
             (IsResult(recon[c]) /\ recon[c].error = MissingSnapshot)
                => NeverAnalysed(c) /\ snapshot[c] = NoEvent)

C14_Witness ==
    /\ recon[2] = Resolved(FALSE, NoImage, MissingSnapshot)
    /\ pc[1] = "waiting"
    /\ mirror = {1, 2}
    /\ surface = {1, 2}
    /\ uploads = 1
    /\ notifications = 1

\* C15, as stated: after every call that finds a FullSnapshot the mirror
\* maps exactly the node ids of that call's snapshot.
C15_MirrorIsExactlyTheSnapshot ==
    [][\A events \in EventLists :
         (~HasNoFullSnapshot(events) /\ Reconstruct(events))
            => mirror' = FindFullSnapshot(events).node]_vars

\* C15, amended: a call that finds a FullSnapshot on a reconstructor that
\* has its document resets mirror and virtual DOM before it builds: after
\* it they hold ids of that call's snapshot only, all of them when the
\* rebuild succeeded and fewer when it threw (the call then fails); on a
\* destroyed reconstructor the call fails before the reset and leaves the
\* mirror as destroy() left it, empty.
C15_MirrorHoldsOnlyThisSnapshot ==
    [][\A events \in EventLists :
         (~HasNoFullSnapshot(events) /\ Reconstruct(events))
            => LET c == nCalls + 1
                   node == FindFullSnapshot(events).node
               IN /\ snapshot'[c] = FindFullSnapshot(events)
                  /\ mirror' \subseteq node
                  /\ attached => virtualDom' = mirror'
                  /\ pc'[c] = "rendering" <=> (attached /\ mirror' = node)
                  /\ pc'[c] # "rendering"
                       => /\ pc'[c] = "done"
                          /\ recon'[c] = Resolved(FALSE, NoImage, ReconstructionFailure)
                  /\ ~attached => mirror' = {} /\ UNCHANGED domVars]_vars

C15_Witness ==
    /\ nCalls = 2
    /\ snapshot[1].node = {1, 2}
    /\ surface = {1, 2}
    /\ snapshot[2].node = {1}
    /\ pc[2] = "rendering"
    /\ mirror = {1}
    /\ virtualDom = {1}

\* C16: when html2canvas fails the call resolves with a document, an error
\* and no image; analyzeImage is not entered, so no job is submitted, no
\* subscriber is called and no label of that call is ever delivered.
C16_CaptureFailureEndsTheCycle ==
    /\ [][\A c \in Calls :
             CaptureDone(c, FALSE)
                => /\ IsResult(recon'[c])
                   /\ recon'[c].document
                   /\ recon'[c].error # ""
                   /\ recon'[c].image = NoImage
                   /\ pc'[c] = "done"
                   /\ uploads' = uploads
                   /\ UNCHANGED << delivery, analysisResults >>]_vars
    /\ [](\A c \in Calls :
             (IsResult(recon[c]) /\ recon[c].error = CaptureFailure) => NeverAnalysed(c))

C16_Witness ==
    /\ recon[2] = Resolved(TRUE, NoImage, CaptureFailure)
    /\ pc[2] = "done"
    /\ pc[1] = "done"
    /\ ret[1].value # <<>>
    /\ lastNotification.call = 1
    /\ lastNotification.labels # <<>>
    /\ uploads = 1

\* the cycle of call d failed: capture, submission or poll
CycleFailed(d) ==
    /\ pc[d] = "done"
    /\ \/ caught[d] # ""
       \/ recon[d].error = CaptureFailure

CycleSucceeded(c) == pc[c] = "done" /\ ret[c].settled /\ ret[c].value # <<>>

\* C17: with a subscriber that keeps the label set of the latest
\* notification, once a cycle has succeeded and every other cycle has
\* failed, the subscriber holds the labels of the cycle that succeeded.
C17_EarlierLabelsStillHeld ==
    \A c \in Calls :
        (/\ CycleSucceeded(c)
         /\ \E d \in Calls \ {c} : CycleFailed(d)
         /\ \A d \in Calls \ {c} : pc[d] = "idle" \/ CycleFailed(d))
           => /\ lastNotification.call = c
              /\ lastNotification.labels # <<>>

\* C18: whatever fails (the rebuild, the diff, the capture, the upload,
\* the poll), a call that has returned has resolved with a
\* DOMReconstructionResult, never rejected, and an analyzeImage that has
\* ended has resolved, to the empty list when it caught an error.
C18_NoFailurePropagates ==
    \A c \in Calls :
        /\ pc[c] \in {"idle", "rendering"} <=> recon[c] = Pending
        /\ pc[c] \notin {"idle", "rendering"} => IsResult(recon[c])
        /\ (pc[c] = "done" /\ cycleNo[c] > 0) => ret[c].settled
        /\ caught[c] # "" => pc[c] = "done" /\ ret[c] = Returned(<<>>)

C18_Witness ==
    /\ recon[1] = Resolved(FALSE, NoImage, ReconstructionFailure)
    /\ mirror = {}
    /\ surface = {}
    /\ virtualDom = {1}
    /\ pc[2] = "done"
    /\ caught[2] = "StreamError"
    /\ recon[2] = Resolved(TRUE, Image({}), "")

(* ---------------- properties of the pages and the plugin --------------- *)

\* run r of the load effect has ended, in its try or in its catch
LoadEnded(r) == loadPc[r] \in {"done", "failed"}

\* C19: when a run of the load effect has loaded the session and a
\* non-empty event list and has ended, with no cleanup since, a replayer
\* exists for those events, whether processSession resolved or rejected.
C19_ReplayerDespiteProcessingFailure ==
    \A r \in Runs :
        (LoadEnded(r) /\ Len(loadedEvents[r]) > 0 /\ cleaned = {} /\ mounted)
            => /\ replayerRef # Null
               /\ replayerRef.value.events = loadedEvents[r]

\* the analysis started by handler call k has finished, in success or in
\* failure
ShotEnded(k) == shotPc[k] \in {"done", "failed"}

\* C20: when the plugin handled a FullSnapshot while the replayer was
\* playing and its analysis has finished, the replayer is playing, the user
\* having done nothing.
C20_PlaybackResumesAfterAnalysis ==
    \A k \in Shots :
        (ShotEnded(k) /\ shotPlaying[k] /\ ~userActed) => replayerPlaying

(* ------------------ properties of the coordinate mapping --------------- *)

\* the canonical pixel box of a two-corner fractional box on an image of
\* the given size; fractions are in 1/1000, so the box is in 1/1000 pixel
PixelBox(bbox, size) ==
    [x |-> bbox[1] * size.width,
     y |-> bbox[2] * size.height,
     width |-> (bbox[3] - bbox[1]) * size.width,
     height |-> (bbox[4] - bbox[2]) * size.height]

\* C21: the box of every label delivered is the two-corner box of its
\* service result scaled to the size of the captured image: x1*W, y1*H,
\* (x2-x1)*W, (y2-y1)*H; [0.1, 0.1, 0.3, 0.2] on 1024x768 gives
\* {x: 102.4, y: 76.8, width: 204.8, height: 76.8}.
C21_BoxIsScaledToTheImage ==
    \A i \in 1..Len(lastNotification.labels) :
        LET result == ret[lastNotification.call].value[i]
            label == lastNotification.labels[i]
        IN /\ label.bbox = PixelBox(result.bbox, imageSize)
           /\ result.bbox = <<100, 100, 300, 200>>
                => label.bbox = [x |-> 102400, y |-> 76800, width |-> 204800, height |-> 76800]

\* a box of exactly four finite numeric components
ValidBBox(bbox) == Len(bbox) = 4 /\ \A i \in 1..4 : bbox[i] \notin {undefined, NaN}

ValidBoxResult(result) == ValidBBox(result.bbox)

\* a label without its id
Mapped(label) == [label |-> label.label, bbox |-> label.bbox]

\* C22: the labels made of a batch are those of its entries with a box of
\* exactly four finite numeric components, in order: no label has a
\* malformed box, and no valid entry is lost or altered.
C22_MalformedEntriesDroppedAlone ==
    mappedLabels # Null =>
        LET valid == SelectSeq(serviceResults, ValidBoxResult)
            labels == mappedLabels.value
        IN /\ Len(labels) = Len(valid)
           /\ \A i \in 1..Len(labels) :
                  /\ labels[i].bbox \in [{"x", "y", "width", "height"} -> Int \ {undefined, NaN}]
                  /\ Mapped(labels[i]) =
                         [label |-> valid[i].text, bbox |-> convertBBoxToBox(valid[i].bbox)]

\* confidences a label can carry: fractions in 1/1000
Confidences == 0..1000

\* C24: every label has a defined confidence: the score of its result when
\* the result carries one, and one fixed default value when it carries none.
C24_ConfidenceIsScoreOrDefault ==
    \E default \in Confidences :
        mappedLabels # Null =>
            \A i \in 1..Len(mappedLabels.value) :
                LET score == serviceResults[i].score
                    confidence == mappedLabels.value[i].confidence
                IN /\ confidence \in Confidences
                   /\ confidence = IF score = undefined THEN default ELSE score

(* ------------- properties of highlightMatchingElements ----------------- *)

\* coords of four number literals
WellFormed(coords) ==
    coords.isArray /\ Len(coords.items) = 4 /\ \A i \in 1..4 : coords.items[i] # "null"

\* `Text Box ID n:`
TextBoxPrefix(id) == <<TextBoxID>> \o id \o <<":">>

\* what follows `Text Box ID n:` in a line starting with it, trimmed
Remainder(line, id) == Trim(SubSeq(line, Len(TextBoxPrefix(id)) + 1, Len(line)))

\* the lines of the parsed text that give the detection id a text
TextLines(id) ==
    { l \in 1..Len(gradioData.parsedText) :
        /\ StartsWith(gradioData.parsedText[l], TextBoxPrefix(id))
        /\ Remainder(gradioData.parsedText[l], id) # <<>> }

BoxesOf(id) == { b \in 1..Len(boxes) : boxes[b].id = id }

\* C23: a detection with id n and a well-formed box is kept exactly when the
\* parsed text has a line starting with `Text Box ID n:` with a non-empty
\* remainder, and its text is then that remainder, trimmed; a line of
\* another id (`Text Box ID 10:` for id 1) gives it nothing.
C23_KeptIffTextLine ==
    highlightPc = "matched" =>
        \A i \in 1..Len(gradioData.object) :
            LET id == gradioData.object[i].id
            IN WellFormed(gradioData.object[i].coords) =>
                  /\ BoxesOf(id) # {} <=> TextLines(id) # {}
                  /\ \A b \in BoxesOf(id) :
                        \E l \in TextLines(id) :
                            boxes[b].text = Remainder(gradioData.parsedText[l], id)

\* C25: the coordinates delivered as a string between single quotes, as a
\* string between double quotes and as an object are parsed to one and the
\* same structure, the entries of the object.
C25_QuotesParseAlike ==
    /\ highlightPc # "idle" =>
          highlightPc = "matched" /\ coordinateObject = Some(gradioData.object)
    /\ \A form \in {"object", "single", "double"} :
          LET parsed == ParseCoordinates(Coordinates(gradioData.object, form))
          IN parsed.ok /\ parsed.value = gradioData.object

C25_Witness ==
    /\ highlightPc = "matched"
    /\ gradioData.form = "single"
    /\ Len(gradioData.object) = 2
    /\ Coordinates(gradioData.object, "single").string
          # Coordinates(gradioData.object, "double").string
    /\ coordinateObject = Some(gradioData.object)

(* ------------ properties of enhanceEventsWithSemanticLabels ------------ *)

\* an event with all its fields, and the labels of its timestamp as
\* semanticLabels when it has some
EnhancedEvent(event, semanticMapping) ==
    [event |-> event, semanticLabels |-> LabelsAt(semanticMapping, event.timestamp)]

\* C26: when processSession has resolved, enhanceEventsWithSemanticLabels
\* resolves to the input events, in their order and each with all its
\* fields, those with labels at their timestamp carrying exactly these
\* labels and the others unchanged.
C26_EventsKeptAndLabelled ==
    (enhancePc = "settled" /\ enhanceResult.error # "processSession") =>
        /\ enhanceResult.kind = "resolved"
        /\ enhanceResult.defined
        /\ enhanceResult.value =
              [i \in 1..Len(enhanceInput.events) |->
                  EnhancedEvent(enhanceInput.events[i], enhanceInput.semanticMapping)]

(* ------------------- properties of the plugin's guard ------------------ *)

\* the analysis started by handler call k is at one of its awaits
ShotInFlight(k) == shotPc[k] \in {"html2canvas", "toBlob", "connect", "predict"}

\* C27: at most one analysis of the plugin is in flight at a time and at
\* most one ends in success; once one has ended in success, no handler call
\* starts another.
C27_OneAnalysisAtATime ==
    /\ [](/\ Cardinality({ k \in Shots : ShotInFlight(k) }) <= 1
          /\ Cardinality({ k \in Shots : shotPc[k] = "done" }) <= 1)
    /\ [][(\E k \in Shots : shotPc[k] = "done") =>
             \A k \in Shots : ShotInFlight(k)' => ShotInFlight(k)]_vars

(* --------------- properties of the EnhancedReplayer's end -------------- *)

\* C28: destroy() leaves no overlay container and so no overlay mounted,
\* and no call made after it, play, pause, resume or a full-snapshot
\* rebuild, mounts one.
C28_NoOverlayAfterDestroy ==
    [][/\ destroyReplayer => overlayContainer' = Null
       /\ overlayContainer = Null => overlayContainer' = Null]_vars

C28_Witness ==
    /\ overlayContainer = Null
    /\ lastCall.op = "rebuildFullSnapshot"
    /\ MountableAt(lastCall.time) # {}

(* -------------------- properties of the poll interval ------------------ *)

\* C29: in a run of pollResults one wait of the interval lies between any
\* two consecutive calls to the results endpoint, whatever the response
\* was, not ready, empty or an error: the waits are one fewer than the calls
\* while a call is out and as many while a wait runs; and they never
\* exceed maxAttempts.
C29_OneWaitBetweenFetches ==
    \A c \in Calls :
        /\ pc[c] = "fetching" => waits[c] = fetches[c] - 1
        /\ pc[c] = "waiting" => waits[c] = fetches[c]
        /\ fetches[c] - waits[c] \in {0, 1}
        /\ waits[c] <= maxAttempts

C29_Witness ==
    /\ Len(trace) = maxAttempts
    /\ trace[1].kind = "NotFound"
    /\ trace[2].kind = "StreamError"
    /\ trace[Len(trace)] = Resp("Ok", <<>>)
    /\ fetches[1] = maxAttempts
    /\ waits[1] = maxAttempts
    /\ pc[1] = "done"

(* ---------------------- properties of the upload ----------------------- *)

\* the upload of call c was made and not accepted: the request failed, the
\* status was no success, the body was no JSON or it held no job id
UploadFailed(c) ==
    /\ pc[c] = "done"
    /\ cycleNo[c] > 0
    /\ jobId[c] = NoJob
    /\ caught[c] \in {"FetchReject", "NotOk", "BadJson", "NoJobId"}

\* C30: a call whose upload was not accepted makes no call to the results
\* endpoint, resolves to the empty list and delivers no labels; a call that
\* polls does so with the job id its own upload returned.
C30_PollOnlyAfterAcceptedUpload ==
    \A c \in Calls :
        /\ (pc[c] = "done" /\ cycleNo[c] > 0 /\ jobId[c] = NoJob) =>
              /\ UploadFailed(c)
              /\ fetches[c] = 0
              /\ ret[c] = Returned(<<>>)
              /\ lastNotification.call = c => lastNotification.labels = <<>>
        /\ fetches[c] > 0 => jobId[c] = c

C30_Witness ==
    /\ UploadFailed(1)
    /\ caught[1] = "NoJobId"
    /\ fetches[1] = 0
    /\ ret[1] = Returned(<<>>)
    /\ pc[2] = "fetching"
    /\ fetches[2] = 2
    /\ jobId[2] = 2

(* ------------- further properties of the reconstructor ---------------- *)

\* C31: a call whose build fails (the rebuild of the snapshot tree throws,
\* or the diff does not bring the document to the snapshot's tree) returns
\* an error result at once: it reaches no capture, so no image is taken and
\* no analysis is started for it.
C31_BuildFailureEndsTheCycle ==
    [][\A events \in EventLists :
         (/\ ~HasNoFullSnapshot(events)
          /\ attached
          /\ Reconstruct(events)
          /\ \/ virtualDom' # FindFullSnapshot(events).node
             \/ surface' # FindFullSnapshot(events).node)
            => LET c == nCalls + 1
               IN /\ pc'[c] = "done"
                  /\ IsResult(recon'[c])
                  /\ recon'[c].error # ""
                  /\ recon'[c].image = NoImage
                  /\ UNCHANGED << uploads, delivery >>]_vars

(* ----------------- the time base of the overlay renderer --------------- *)

\* Replayer: the playback time at which it casts an event, the offset of
\* the event's timestamp from that of the first event of the session
PlaybackInstant(event) == event.timestamp - RecordedEvents[1].timestamp

\* the overlays rebuildFullSnapshot(event) mounts
OverlaysOfRebuild(event) ==
    AttachFrom(<<>>, relevantLabels(semanticLabels, event.timestamp), event.node, 1)

\* C32: play, pause and resume decide activeness as rebuildFullSnapshot
\* does: called at the playback instant of a FullSnapshot, on the mirror
\* that snapshot built, they mount the overlays its rebuild mounts.
C32_SameActiveSetAtTheSameInstant ==
    \A i \in 1..Len(RecordedEvents) :
        LET event == RecordedEvents[i]
        IN (/\ event.type = FullSnapshot
            /\ overlayContainer # Null
            /\ lastCall.op \in {"play", "pause", "resume"}
            /\ lastCall.time = PlaybackInstant(event)
            /\ replayMirror = event.node)
              => overlayContainer.value = OverlaysOfRebuild(event)

(* ------------------- the snapshot a call rebuilds ---------------------- *)

\* the place of the first FullSnapshot in events
FirstFullSnapshotAt(events) ==
    CHOOSE i \in 1..Len(events) :
        /\ events[i].type = FullSnapshot
        /\ \A j \in 1..(i - 1) : events[j].type # FullSnapshot

\* C33: a call on events with FullSnapshots rebuilds the first of them in
\* sequence order: that event is the one it holds, the virtual DOM and the
\* mirror hold ids of its tree only, all of them when the rebuild succeeded,
\* and the document holds its tree or, the diff having failed, what it held.
C33_FirstFullSnapshotIsRebuilt ==
    [][\A events \in EventLists :
         (~HasNoFullSnapshot(events) /\ attached /\ Reconstruct(events))
            => LET c == nCalls + 1
                   first == events[FirstFullSnapshotAt(events)]
               IN /\ snapshot'[c] = first
                  /\ virtualDom' \subseteq first.node
                  /\ mirror' = virtualDom'
                  /\ pc'[c] = "rendering"
                       => /\ virtualDom' = first.node
                          /\ surface' \in {surface, first.node}
                          /\ image'[c].of = surface']_vars

C33_Witness ==
    /\ nCalls = 1
    /\ snapshot[1] = Event(FullSnapshot, 1, {1, 2})
    /\ pc[1] = "rendering"
    /\ virtualDom = {1, 2}
    /\ mirror = {1, 2}
    /\ surface = {1, 2}
    /\ image[1].of = {1, 2}

(* ---------------- the notifications of an analysis cycle --------------- *)

\* the callbacks a notification was delivered to
Recipients(notification) == { notification.to[i] : i \in 1..Len(notification.to) }

\* this step notifies the subscribers on behalf of call c
Notifies(c) == notifications' # notifications /\ lastNotification'.call = c

\* the first notification of the cycle of call c: the empty label set and
\* the image just captured, the upload not yet made
ImageNotified(c) ==
    /\ pc[c] = "rendering" /\ pc'[c] = "uploading"
    /\ cycleNo[c] = 0
    /\ uploads' = uploads + 1
    /\ lastNotification'.labels = <<>>
    /\ image'[c].captured
    /\ lastNotification'.image = image'[c]
    /\ lastNotification'.to = subscribers

\* the second one: the labels of the cycle and the image of the first
LabelsNotified(c) ==
    /\ pc[c] = "fetching" /\ pc'[c] = "done"
    /\ caught'[c] = ""
    /\ lastNotification'.labels # <<>>
    /\ \A i \in 1..Len(lastNotification'.labels) :
          lastNotification'.labels[i].id[1] = c
    /\ lastNotification'.image = image[c]
    /\ lastNotification'.to = subscribers

\* a cycle notifies when it starts, once more when it ends in success, and
\* at no other step; its image stays the same from start to end
NotificationsOrdered ==
    /\ notifications' \in {notifications, notifications + 1}
    /\ notifications' = notifications => lastNotification' = lastNotification
    /\ \A c \in Calls :
          /\ Notifies(c) => ImageNotified(c) \/ LabelsNotified(c)
          /\ (pc[c] = "rendering" /\ pc'[c] = "uploading") => Notifies(c)
          /\ CycleInFlight(c) => (CycleInFlight(c)' \/ pc'[c] = "done") /\ image'[c] = image[c]
          /\ pc[c] = "done" => pc'[c] = "done" /\ ~Notifies(c)
          /\ (pc[c] # "done" /\ pc'[c] = "done" /\ caught'[c] # "") => UNCHANGED delivery

\* C34, as stated: the notifications of a cycle are ordered, and every
\* subscriber that receives the labels of a cycle has received the empty
\* label set and the image of that cycle before (checked where no other
\* cycle has notified in between).
C34_EverySubscriberGetsTheImageFirst ==
    [][/\ NotificationsOrdered
       /\ \A c \in Calls :
            (Notifies(c) /\ LabelsNotified(c) /\ lastNotification.call = c)
               => Recipients(lastNotification') \subseteq Recipients(lastNotification)]_vars

\* C34, amended: a cycle first notifies the callbacks registered at that
\* moment with the empty label set and the captured image, in the step
\* that issues the upload; afterwards it notifies at most once more, on
\* success, the callbacks registered at that moment with the labels of the
\* cycle and the same image; a cycle that fails notifies no more.
C34_NotificationsOfACycleAreOrdered == [][NotificationsOrdered]_vars

C34_Witness ==
    /\ pc[1] = "done"
    /\ caught[1] = MaxAttemptsReached
    /\ pc[2] = "done"
    /\ caught[2] = ""
    /\ notifications = 3
    /\ lastNotification.call = 2
    /\ lastNotification.labels # <<>>
    /\ lastNotification.image = image[2]
    /\ lastNotification.to = << "cb1" >>

(* ------------------------- the unsubscribe function -------------------- *)

\* list without the entries that are cb, the others in their order
RECURSIVE Others(_, _)
Others(list, cb) ==
    IF list = <<>> THEN <<>>
    ELSE IF Head(list) = cb THEN Others(Tail(list), cb)
    ELSE << Head(list) >> \o Others(Tail(list), cb)

\* C39: the function subscribeToSemanticLabels returned for cb takes every
\* registration of cb out of the list and leaves the other registrations
\* as they were, in their order, and nothing else changes; called again it
\* changes nothing; and a notification goes to the callbacks registered
\* when it starts, so to cb no more.
C39_UnsubscribeRemovesTheCallbackOnly ==
    [][/\ \A cb \in Listeners :
            Unsubscribe(cb)
               => /\ subscribers' = Others(subscribers, cb)
                  /\ \A i \in 1..Len(subscribers') : subscribers'[i] # cb
                  /\ Others(subscribers', cb) = subscribers'
                  /\ UNCHANGED << nCalls, callVars, delivery, uploads, analysisResults >>
       /\ \A c \in Calls :
            Notifies(c) => lastNotification'.to = subscribers]_vars

\* cb1, registered twice when the cycle started, has been taken out
C39_Witness ==
    /\ lastNotification.call = 1
    /\ lastNotification.labels = <<>>
    /\ lastNotification.to = << "cb1", "cb2", "cb1" >>
    /\ subscribers = << "cb2" >>
    /\ notifications = 1
    /\ pc[1] = "fetching"

(* ---------------- the processor of the enhancement -------------------- *)

\* C37: enhanceEventsWithSemanticLabels calls destroy() on its processor
\* exactly once, whether processSession resolves or rejects or the
\* enhancement throws, and not before processSession has settled.
C37_ProcessorReleasedOnce ==
    /\ enhancePc = "idle" => enhanceProcessor = <<>>
    /\ enhancePc = "processSession" => enhanceProcessor = << "processSession" >>
    /\ enhancePc = "settled" => enhanceProcessor = << "processSession", "destroy" >>

C37_Witness ==
    /\ enhancePc = "settled"
    /\ enhanceResult = Outcome("rejected", "ReferenceError", FALSE, <<>>)
    /\ enhanceInput.semanticMapping # <<>>
    /\ enhanceProcessor = << "processSession", "destroy" >>

(* ------------- the replayer of SemanticInteractivePlayer --------------- *)

\* C36: the replayer the page holds is one of the current run's session,
\* there is none after the unmount, and a run of the current session that
\* ends in success leaves the page with that session's replayer, whatever
\* an earlier run, overtaken by its cleanup, does when it completes.
C36_OnlyTheCurrentSessionsReplayer ==
    /\ replayerRef # Null => replayerRef.value.events = SessionEvents(nRuns)
    /\ ~mounted => replayerRef = Null
    /\ (nRuns > 0 /\ nRuns \notin cleaned /\ loadPc[nRuns] = "done")
          => /\ replayerRef # Null
             /\ replayerRef.value.events = loadedEvents[nRuns]

(* -------------------- the player of the player pages ------------------- *)

\* C35: when the getEvents of the latest run of the effect has resolved on
\* a mounted page, the player the page holds plays the events of that
\* run's session, however the loads of earlier runs resolve, before or
\* after it.
C35_LatestSessionIsPlayed ==
    (playerEl /\ playerRuns > 0 /\ playerLoads[playerRuns].getEvents = "settled")
        => /\ ~playerRef.isNull
           /\ playerRef.value.events = SessionEvents(playerRuns)

(* --------------------- the quiescence of the observer ------------------ *)

\* C38: after enableInteract(), nothing else changing the page, the
\* observer runs dry: the records patchIframe's own writes queue lead to
\* finitely many patchIframe calls, so that, unless interaction is
\* disabled first, a moment comes with no record queued; and a run of the
\* callback while interaction is disabled changes nothing.
C38_PatchingReachesQuiescence ==
    /\ isInteractionEnabled ~> (records = <<>> \/ ~isInteractionEnabled)
    /\ [][(ObserverCallback /\ ~isInteractionEnabled)
             => (UNCHANGED iframeAttrs /\ records' = <<>>)]_vars

====
